---- MODULE Spec2Model ----
(***************************************************************************)
(* Model of criterion.rs: the regression verdict of the comparison         *)
(* procedures (src/src/analysis/compare.rs, src/src/criterion.rs,          *)
(* src/src/html/mod.rs) and the per-benchmark analysis procedure           *)
(* (src/src/analysis/mod.rs).                                              *)
(***************************************************************************)
EXTENDS Integers, Sequences, FiniteSets, TLC

(***************************************************************************)
(* Bounds of the model.                                                    *)
(***************************************************************************)
\* confidence-interval bounds range over -MaxVal..MaxVal (and NaN)
MaxVal == 2
\* noise thresholds range over 0..MaxNoise
MaxNoise == 1
\* p-values and significance levels range over 0..MaxP (in equal steps of 1/MaxP)
MaxP == 2
\* number of successive runs of the same benchmark id
MaxRuns == 2
\* number of I/O faults (failed writes, damaged files, failed sends) over all runs
MaxFaults == 1

(***************************************************************************)
(* f64 values: a finite number or NaN.  Every ordered comparison with NaN  *)
(* is false, as in IEEE 754.                                               *)
(***************************************************************************)
F(v) == [nan |-> FALSE, v |-> v]
NaN == [nan |-> TRUE, v |-> 0]
Floats == {F(v) : v \in -MaxVal..MaxVal} \cup {NaN}
Lt(a, b) == ~a.nan /\ ~b.nan /\ a.v < b.v
Gt(a, b) == ~a.nan /\ ~b.nan /\ a.v > b.v
Neg(a) == IF a.nan THEN NaN ELSE F(-a.v)

\* the tracked statistics listed against the order of the keys
REL_STATS_unordered == <<"Median", "Mean">>

\* the statistics tracked by the relative-change comparison, in key order
REL_STATS == <<"Mean", "Median">>
RelStatSet == {REL_STATS[i] : i \in 1..Len(REL_STATS)}

VARIABLES
    \* ---- verdict procedures ----
    rel_estimates,   \* statistic -> [lb, ub]: the relative-change confidence intervals
    noise,           \* noise threshold / noise tolerance of the configuration
    p_value,         \* two-tailed p-value of the t-test on the two samples
    sl,              \* significance level of the configuration
    verdict,         \* what the last verdict procedure did
    cls,             \* results of the three classification functions
    \* ---- analysis procedure (analysis/mod.rs common) ----
    fs,              \* the benchmark's directory: which directories exist, file contents
    run,             \* number of runs of the benchmark started so far
    cfg,             \* the Criterion configuration of the current run
    pc,              \* position of the current run in common
    data,            \* (iters, times) of the current run: id of the sample, 0 = none yet
    labeled_sample,  \* id of the sample the outliers were classified on, 0 = none
    slope,           \* id of the sample the regression was fitted on, 0 = none
    estimates,       \* id of the sample the absolute estimates were built from, 0 = none
    compare_data,    \* Option<ComparisonData> of the current run
    reported,        \* the MeasurementData handed to measurement_complete, if any
    trace,           \* what the current run did so far, in order
    fs0,             \* the directory as it was when the current run started
    pre_copy,        \* the directory as it was when copy_new_dir_to_base was entered
    faults,          \* number of I/O faults injected so far
    \* ---- mixed bootstrap (stats univariate/mixed.rs bootstrap) ----
    sample_a,        \* the sample a of the call
    sample_b,        \* the sample b of the call
    nresamples,      \* the number of repetitions asked for
    pool,            \* c: the pooled sample a ++ b
    tasks,           \* the jobs of the parallel iterator, in index order
    distribution,    \* what the call has returned to its caller
    bpc,             \* position of the call: init, running, returned
    evaluated,       \* repetition index -> value the statistic returned for it
    applied,         \* the latest call of the statistic: its resample and arguments
    \* ---- reporting of the relative estimates (compare.rs estimates, bench) ----
    rproc,           \* the procedure that reports: none, common, bench
    rpc,             \* its position: init, loop, returned, failed
    diff_mean,       \* different_mean: the result of the t-test of common
    stat_i,          \* number of statistics the loop has gone through
    regressed_vec,   \* the vector regressed of the loop
    rlog,            \* what was printed, and the failure, in order
    \* ---- Estimate::new and the slope estimate ----
    nresamples_cfg,  \* Criterion.nresamples
    cl_num,          \* the confidence level is cl_num / ClDen
    dist_keys,       \* the statistics that have a distribution
    points,          \* the slice of point estimates
    epc,             \* position: config, init, regressed, zip, collected, failed
    pair_i,          \* number of (distribution, point) pairs mapped so far
    est_out,         \* the estimates built so far: statistic -> Estimate
    slope_out,       \* the outcome of regression: none, failed, or the Slope estimate
    \* -- the configuration builder (criterion.rs Criterion) --
    criterion,       \* the fields of the Criterion that the setters assign
    last_call,       \* the last setter called: its name, argument, outcome, and the fields before it
    \* -- the outlier classifier (tukey::classify) --
    avg_times,       \* the sample given to outliers
    tukey_first,     \* what the first classification of the sample returned
    tukey_second,    \* what a second classification of the same sample returned
    \* -- the density sweep (kde.rs Kde::sweep) --
    sweep_call,      \* the arguments of sweep, the number of CPUs and the sample of the Kde
    kpc,             \* where the caller of sweep is
    loop_i,          \* the counter of the caller's current loop
    chan,            \* the number of messages in the channel
    workers,         \* the spawned tasks: position, range, next slot and next x
    pdf,             \* the buffer: per slot the point and how often and by whom it was written
    x_acc,           \* the x of the single-threaded loop
    \* -- the directories of one benchmark id (criterion.rs bench) --
    crit_dir,        \* .criterion/<id>: base/ and new/, each with the run whose sample.json it holds
    bench_run,       \* the number of the current run of bench
    bench_pc,        \* where the current run is
    bench_cmp,       \* the comparison of the current run: whether made, and against which sample
    bench_start,     \* the directories as the current run found them, and how the run before it ended
    \* -- the run of common before the current one --
    pred,            \* the baseline directory it saved into and its sample, if it was a returned Save run
    \* -- the report's wording and the classification of a negated interval --
    explanation,     \* the explanation of the HTML report's comparison
    neg_cls,         \* an estimate's class and the class of its negated interval
    \* -- the relative estimates (compare.rs estimates) --
    rel              \* the two samples, the resample, the distributions, the points and the Estimates

vvars == <<rel_estimates, noise, p_value, sl, verdict, cls>>
avars == <<fs, run, cfg, pc, data, labeled_sample, slope, estimates, compare_data,
           reported, trace, fs0, pre_copy, faults>>
bvars == <<sample_a, sample_b, nresamples, pool, tasks, distribution, bpc, evaluated,
          applied>>
vars == <<rel_estimates, noise, p_value, sl, verdict, cls,
          fs, run, cfg, pc, data, labeled_sample, slope, estimates, compare_data,
          reported, trace, fs0, pre_copy, faults,
          sample_a, sample_b, nresamples, pool, tasks, distribution, bpc, evaluated,
          applied,
          rproc, rpc, diff_mean, stat_i, regressed_vec, rlog,
          nresamples_cfg, cl_num, dist_keys, points, epc, pair_i, est_out, slope_out,
          criterion, last_call, avg_times, tukey_first, tukey_second,
          sweep_call, kpc, loop_i, chan, workers, pdf, x_acc,
          crit_dir, bench_run, bench_pc, bench_cmp, bench_start, pred,
          explanation, neg_cls, rel>>
rvars == <<rproc, rpc, diff_mean, stat_i, regressed_vec, rlog>>
evars == <<nresamples_cfg, cl_num, dist_keys, points, epc, pair_i, est_out, slope_out>>
cvars == <<criterion, last_call>>
tvars == <<avg_times, tukey_first, tukey_second>>
kvars == <<sweep_call, kpc, loop_i, chan, workers, pdf, x_acc>>
dvars == <<crit_dir, bench_run, bench_pc, bench_cmp, bench_start>>
hvars == <<explanation, neg_cls>>
xvars_but_pred == <<cvars, tvars, kvars, dvars, hvars, rel>>
xvars_but_hvars == <<cvars, tvars, kvars, dvars, pred, rel>>
xvars_but_rel == <<cvars, tvars, kvars, dvars, pred, hvars>>
xvars == <<xvars_but_pred, pred>>
but_cvars == <<rel, pred, hvars, vvars, avars, bvars, rvars, evars, tvars, kvars, dvars>>
but_tvars == <<rel, pred, hvars, vvars, avars, bvars, rvars, evars, cvars, kvars, dvars>>
but_kvars == <<rel, pred, hvars, vvars, avars, bvars, rvars, evars, cvars, tvars, dvars>>
but_dvars == <<rel, pred, hvars, vvars, avars, bvars, rvars, evars, cvars, tvars, kvars>>

(***************************************************************************)
(* Classification against the noise threshold.                             *)
(***************************************************************************)
\* compare_to_threshold with the lower bound compared by >= instead of >
compare_to_threshold_le(estimate, nz) ==
    IF Lt(estimate.lb, Neg(F(nz))) /\ Lt(estimate.ub, Neg(F(nz))) THEN "Improved"
    ELSE IF ~Lt(estimate.lb, F(nz)) /\ ~estimate.lb.nan /\ Gt(estimate.ub, F(nz))
         THEN "Regressed"
    ELSE "NonSignificant"

\* analysis/compare.rs: compare_to_threshold
compare_to_threshold(estimate, nz) ==
    IF Lt(estimate.lb, Neg(F(nz))) /\ Lt(estimate.ub, Neg(F(nz))) THEN "Improved"
    ELSE IF Gt(estimate.lb, F(nz)) /\ Gt(estimate.ub, F(nz)) THEN "Regressed"
    ELSE "NonSignificant"

\* html/mod.rs: compare_to_threshold
html_compare_to_threshold(estimate, nz) ==
    IF Lt(estimate.lb, Neg(F(nz))) /\ Lt(estimate.ub, Neg(F(nz))) THEN "Improved"
    ELSE IF Gt(estimate.lb, F(nz)) /\ Gt(estimate.ub, F(nz)) THEN "Regressed"
    ELSE "NonSignificant"

\* criterion.rs: compare_to_noise
compare_to_noise(estimate, nz) ==
    IF Lt(estimate.lb, Neg(F(nz))) /\ Lt(estimate.ub, Neg(F(nz))) THEN "Improved"
    ELSE IF Gt(estimate.lb, F(nz)) /\ Gt(estimate.ub, F(nz)) THEN "Regressed"
    ELSE "WithinNoise"

(***************************************************************************)
(* The verdict procedures.                                                 *)
(***************************************************************************)
\* analysis/compare.rs: t_test returns different_mean
t_test(p, level) == p < level

\* analysis/compare.rs: estimates returns one flag per statistic, in key order
estimates_regressed(ests, nz) ==
    [i \in 1..Len(REL_STATS) |->
        compare_to_threshold(ests[REL_STATS[i]], nz) = "Regressed"]

\* criterion.rs: the loop of bench over [Mean, Median]
bench_regressed(ests, nz) ==
    [i \in 1..Len(REL_STATS) |->
        compare_to_noise(ests[REL_STATS[i]], nz) = "Regressed"]

All(flags) == \A i \in 1..Len(flags) : flags[i]

(***************************************************************************)
(* The benchmark's directory <output_directory>/<id>/.                      *)
(* A file's content is 0 (no such file), -1 (present but unreadable: it     *)
(* cannot be decoded) or k >= 1: the artifact computed from the sample of   *)
(* id k (benchmark.json: written by run k).                                 *)
(***************************************************************************)
Dirs == {"base", "new"}
\* copy_new_dir_to_base copies these, in this order
ARTIFACTS == <<"estimates.json", "sample.json", "tukey.json", "benchmark.json", "raw.csv">>
Files == {ARTIFACTS[i] : i \in 1..Len(ARTIFACTS)}
NoDir == "-"

EmptyFs == [exists |-> [d \in Dirs |-> FALSE],
            file |-> [d \in Dirs |-> [f \in Files |-> 0]]]

\* Path::exists on a directory of the benchmark
dir_exists(fsys, d) == fsys.exists[d]

\* fs::mkdirp: creates the directory unless the operation fails
mkdirp(fsys, d, ok) ==
    IF ok THEN [fsys EXCEPT !.exists[d] = TRUE] ELSE fsys

\* the result of fs::save into directory d with the given outcome ("ok", or
\* "err": the operation fails and nothing is written)
write_ok(fsys, d, outcome) == dir_exists(fsys, d) /\ outcome = "ok"

\* fs::save: writes content c to d/f; fails when the directory is missing
save(fsys, d, f, c, outcome) ==
    IF ~dir_exists(fsys, d) \/ outcome = "err" THEN fsys
    ELSE [fsys EXCEPT !.file[d][f] = c]

\* fs::cp (std::fs::copy): fails when the source or the target directory is
\* missing; byte copy, so an unreadable source is copied as it is
cp_ok(fsys, from, to, f, outcome) ==
    fsys.file[from][f] # 0 /\ dir_exists(fsys, to) /\ outcome = "ok"

cp(fsys, from, to, f, outcome) ==
    IF fsys.file[from][f] = 0 \/ ~dir_exists(fsys, to) \/ outcome = "err" THEN fsys
    ELSE [fsys EXCEPT !.file[to][f] = fsys.file[from][f]]

\* fs::load: Ok(content) for a readable file, Err otherwise
load_ok(fsys, d, f) == fsys.file[d][f] >= 1
load(fsys, d, f) == fsys.file[d][f]

\* outcomes an I/O operation may have: a fault is possible while the fault
\* budget lasts
Outcomes(n) == IF n < MaxFaults THEN {"ok", "err"} ELSE {"ok"}
Oks(n) == IF n < MaxFaults THEN {TRUE, FALSE} ELSE {TRUE}
Cost(outcome) == IF outcome = "ok" THEN 0 ELSE 1

(***************************************************************************)
(* Configuration of a run (the fields of Criterion that common reads).     *)
(***************************************************************************)
Configs == [list_mode : BOOLEAN, test_mode : BOOLEAN,
            baseline : {"Save", "Compare"},
            baseline_directory : Dirs,
            load_baseline : Dirs \cup {NoDir},
            profile_time : BOOLEAN]

DefaultConfig == [list_mode |-> FALSE, test_mode |-> FALSE, baseline |-> "Save",
                  baseline_directory |-> "base", load_baseline |-> NoDir,
                  profile_time |-> FALSE]

\* events of the trace
Ev(e) == [ev |-> e, dir |-> "", file |-> "", ok |-> TRUE]
Io(op, d, f, ok) == [ev |-> op, dir |-> d, file |-> f, ok |-> ok]

NoComparison == [some |-> FALSE, cur |-> 0, base_sample |-> 0, base_estimates |-> 0]
NoReport == [some |-> FALSE, data |-> 0, avg_times |-> 0, absolute_estimates |-> 0,
             slope |-> 0, comparison |-> NoComparison]

\* analysis::compare::common as called by common: loads the baseline's sample
\* and estimates; Err when either cannot be read
compare_common_ok(fsys, bd) ==
    load_ok(fsys, bd, "sample.json") /\ load_ok(fsys, bd, "estimates.json")

compare_common(fsys, bd, cur) ==
    [some |-> TRUE, cur |-> cur,
     base_sample |-> load(fsys, bd, "sample.json"),
     base_estimates |-> load(fsys, bd, "estimates.json")]

\* no run of common yet, or none that measured with Baseline::Save and returned
NoRun == [save_dir |-> NoDir, data |-> 0]

\* the run takes or loads a sample and analyses it
Measures(c) == ~c.list_mode /\ ~c.test_mode /\ ~c.profile_time

InitAnalysisVars ==
    /\ fs = EmptyFs
    /\ run = 0
    /\ cfg = DefaultConfig
    /\ pc = "idle"
    /\ data = 0
    /\ labeled_sample = 0
    /\ slope = 0
    /\ estimates = 0
    /\ compare_data = NoComparison
    /\ reported = NoReport
    /\ trace = <<>>
    /\ fs0 = EmptyFs
    /\ pre_copy = EmptyFs
    /\ faults = 0

InitVerdictVars ==
    /\ rel_estimates = [s \in RelStatSet |-> [lb |-> F(0), ub |-> F(0)]]
    /\ noise = 0
    /\ p_value = 0
    /\ sl = 0
    /\ verdict = [proc |-> "none", failed |-> FALSE]
    /\ cls = [compare |-> "none", html |-> "none", legacy |-> "none", stat |-> "none"]

NoTasks == <<>>
NotApplied == [rep |-> -1, resample |-> <<>>, a |-> <<>>, b |-> <<>>, value |-> 0]
NotEvaluated == [some |-> FALSE, value |-> 0]
Evaluated(v) == [some |-> TRUE, value |-> v]

InitBootVars ==
    /\ sample_a = <<0>>
    /\ sample_b = <<0>>
    /\ nresamples = 0
    /\ pool = <<>>
    /\ tasks = NoTasks
    /\ distribution = <<>>
    /\ bpc = "init"
    /\ evaluated = <<>>
    /\ applied = NotApplied

InitReportVars ==
    /\ rproc = "none"
    /\ rpc = "init"
    /\ diff_mean = FALSE
    /\ stat_i = 0
    /\ regressed_vec = <<>>
    /\ rlog = <<>>

NoEstimates == <<>>
NoSlope == [st |-> "none", lb |-> 0, ub |-> 0]

InitEstimateVars ==
    /\ nresamples_cfg = 0
    /\ cl_num = 1
    /\ dist_keys = {}
    /\ points = <<>>
    /\ epc = "config"
    /\ pair_i = 0
    /\ est_out = NoEstimates
    /\ slope_out = NoSlope

\* criterion.rs Criterion::default, lines 48-57; the two f64 fields in hundredths
default == [confidence_level |-> F(95), noise_tolerance |-> F(1), sample_size |-> 100]
NoCall == [fn |-> "none", arg |-> F(0), ok |-> TRUE, before |-> default]

NotClassified == [done |-> FALSE, fences |-> <<>>, labels |-> <<>>]

NoSweep == [a |-> 0, b |-> 0, n |-> 0, ncpus |-> 0, sample |-> <<>>]

\* a directory that does not exist; sample is the run whose sample.json a
\* directory holds, 0 when it holds none
Absent == [exists |-> FALSE, sample |-> 0]
NotCompared == [done |-> FALSE, against |-> 0]

NoNegCls == [stat |-> "none", of |-> "none", negated |-> "none"]

NoRel == [pc |-> "none", times |-> <<>>, base_times |-> <<>>, resample |-> <<>>,
          distributions |-> <<>>, points |-> <<>>, estimates |-> <<>>]

\* the default Criterion with no setter called, and nothing called yet of
\* outliers, Kde::sweep, bench, Html::comparison and the relative estimates
InitXVars ==
    /\ pred = NoRun
    /\ rel = NoRel
    /\ explanation = "none"
    /\ neg_cls = NoNegCls
    /\ criterion = default
    /\ last_call = NoCall
    /\ avg_times = <<>>
    /\ tukey_first = NotClassified
    /\ tukey_second = NotClassified
    /\ sweep_call = NoSweep
    /\ kpc = "idle"
    /\ loop_i = 0
    /\ chan = 0
    /\ workers = <<>>
    /\ pdf = <<>>
    /\ x_acc = 0
    /\ crit_dir = [base |-> Absent, new |-> Absent]
    /\ bench_run = 0
    /\ bench_pc = "idle"
    /\ bench_cmp = NotCompared
    /\ bench_start = [base |-> Absent, new |-> Absent, prev |-> "idle"]

NoVerdict == [proc |-> "none", failed |-> FALSE]
NoCls == [compare |-> "none", html |-> "none", legacy |-> "none", stat |-> "none"]

InitVerdict ==
    /\ rel_estimates \in [RelStatSet -> [lb : Floats, ub : Floats]]
    /\ noise \in 0..MaxNoise
    /\ p_value \in 0..MaxP
    /\ sl \in 0..MaxP
    /\ verdict = NoVerdict
    /\ cls = NoCls
    /\ InitAnalysisVars
    /\ InitBootVars
    /\ InitReportVars
    /\ InitEstimateVars
    /\ InitXVars

\* analysis/compare.rs common, lines 44-50: fail!("{} has regressed")
CompareCommon ==
    /\ verdict.proc = "none" /\ cls.stat = "none"
    /\ LET different_mean == t_test(p_value, sl)
           regressed == estimates_regressed(rel_estimates, noise)
       IN verdict' = [proc |-> "common",
                      failed |-> different_mean /\ All(regressed)]
    /\ UNCHANGED <<rel_estimates, noise, p_value, sl, cls, avars, bvars, rvars, evars, xvars>>

\* criterion.rs bench, lines 314-338: fail!("regression")
Bench ==
    /\ verdict.proc = "none" /\ cls.stat = "none"
    /\ LET regressed == bench_regressed(rel_estimates, noise)
       IN verdict' = [proc |-> "bench", failed |-> All(regressed)]
    /\ UNCHANGED <<rel_estimates, noise, p_value, sl, cls, avars, bvars, rvars, evars, xvars>>

\* one estimate classified by each of the three functions
Classify ==
    /\ verdict.proc = "none" /\ cls.stat = "none"
    /\ \E s \in RelStatSet :
         cls' = [compare |-> compare_to_threshold(rel_estimates[s], noise),
                 html |-> html_compare_to_threshold(rel_estimates[s], noise),
                 legacy |-> compare_to_noise(rel_estimates[s], noise),
                 stat |-> s]
    /\ UNCHANGED <<rel_estimates, noise, p_value, sl, verdict, avars, bvars, rvars, evars, xvars>>

\* Html::comparison with the explanation chosen without the t-test
HtmlComparison_no_t_test ==
    /\ explanation = "none"
    /\ LET mean_est == rel_estimates["Mean"]
           comparison == html_compare_to_threshold(mean_est, noise)
       IN explanation' =
             IF comparison = "Improved" THEN "Performance has improved."
             ELSE IF comparison = "Regressed" THEN "Performance has regressed."
             ELSE "Change within noise threshold."
    /\ UNCHANGED <<neg_cls, vvars, avars, bvars, rvars, evars, xvars_but_hvars>>

\* html/mod.rs Html::comparison, lines 236-257
HtmlComparison ==
    /\ explanation = "none"
    /\ LET different_mean == p_value < sl
           mean_est == rel_estimates["Mean"]
           comparison == html_compare_to_threshold(mean_est, noise)
       IN explanation' =
             IF ~different_mean THEN "No change in performance detected."
             ELSE IF comparison = "Improved" THEN "Performance has improved."
             ELSE IF comparison = "Regressed" THEN "Performance has regressed."
             ELSE "Change within noise threshold."
    /\ UNCHANGED <<neg_cls, vvars, avars, bvars, rvars, evars, xvars_but_hvars>>

\* analysis/compare.rs compare_to_threshold, lines 149-161, applied to an
\* estimate's interval and to the negated interval [-ub, -lb]
ClassifyNegated ==
    /\ neg_cls.stat = "none"
    /\ \E s \in RelStatSet :
         LET e == rel_estimates[s]
             negated == [lb |-> Neg(e.ub), ub |-> Neg(e.lb)]
         IN neg_cls' = [stat |-> s, of |-> compare_to_threshold(e, noise),
                        negated |-> compare_to_threshold(negated, noise)]
    /\ UNCHANGED <<explanation, vvars, avars, bvars, rvars, evars, xvars_but_hvars>>

NextVerdict == CompareCommon \/ Bench \/ Classify \/ HtmlComparison

NextNegated == ClassifyNegated

SpecNegated == InitVerdict /\ [][NextNegated]_vars

SpecVerdict == InitVerdict /\ [][NextVerdict]_vars

(***************************************************************************)
(* The analysis procedure: analysis/mod.rs common, one action per stage.   *)
(***************************************************************************)
Panic(cause) == [ev |-> "panic", dir |-> "", file |-> cause, ok |-> FALSE]

\* the caller starts common for the benchmark id with some configuration
StartRun ==
    /\ pc \in {"idle", "done", "panicked"}
    /\ run < MaxRuns
    /\ \E c \in Configs : cfg' = c
    /\ run' = run + 1
    /\ pc' = "start"
    /\ data' = 0 /\ labeled_sample' = 0 /\ slope' = 0 /\ estimates' = 0
    /\ compare_data' = NoComparison
    /\ reported' = NoReport
    /\ trace' = <<>>
    /\ fs0' = fs /\ pre_copy' = fs
    /\ pred' = IF cfg.baseline = "Save" /\ Measures(cfg) /\ pc = "done"
               THEN [save_dir |-> cfg.baseline_directory, data |-> data]
               ELSE NoRun
    /\ UNCHANGED <<fs, faults, vvars, bvars, rvars, evars, xvars_but_pred>>

\* between two runs a persisted sample or estimates file gets damaged
CorruptFile ==
    /\ pc \in {"idle", "done", "panicked"}
    /\ run < MaxRuns
    /\ faults < MaxFaults
    /\ \E d \in Dirs, f \in {"sample.json", "estimates.json"} :
         /\ fs.file[d][f] >= 1
         /\ fs' = [fs EXCEPT !.file[d][f] = -1]
    /\ faults' = faults + 1
    /\ UNCHANGED <<run, cfg, pc, data, labeled_sample, slope, estimates,
                   compare_data, reported, trace, fs0, pre_copy, vvars, bvars, rvars, evars, xvars>>

\* ListMode with benchmark_start reported before list_mode is looked at
ListMode_start_first ==
    /\ pc = "start"
    /\ IF cfg.list_mode
       THEN trace' = trace \o <<Ev("benchmark_start"), Ev("println")>> /\ pc' = "done"
       ELSE trace' = Append(trace, Ev("benchmark_start")) /\ pc' = "test_mode"
    /\ UNCHANGED <<fs, run, cfg, data, labeled_sample, slope, estimates,
                   compare_data, reported, fs0, pre_copy, faults, vvars, bvars, rvars, evars, xvars>>

\* lines 48-52: list mode prints the id and returns; else benchmark_start
ListMode ==
    /\ pc = "start"
    /\ IF cfg.list_mode
       THEN trace' = Append(trace, Ev("println")) /\ pc' = "done"
       ELSE trace' = Append(trace, Ev("benchmark_start")) /\ pc' = "test_mode"
    /\ UNCHANGED <<fs, run, cfg, data, labeled_sample, slope, estimates,
                   compare_data, reported, fs0, pre_copy, faults, vvars, bvars, rvars, evars, xvars>>

\* TestMode without its return: the run goes on after terminated
TestMode_no_return ==
    /\ pc = "test_mode"
    /\ IF cfg.test_mode
       THEN trace' = trace \o <<Ev("routine.test"), Ev("terminated")>>
       ELSE trace' = trace
    /\ pc' = "baseline_check"
    /\ UNCHANGED <<fs, run, cfg, data, labeled_sample, slope, estimates,
                   compare_data, reported, fs0, pre_copy, faults, vvars, bvars, rvars, evars, xvars>>

\* lines 55-59: test mode runs the routine once, reports terminated, returns
TestMode ==
    /\ pc = "test_mode"
    /\ IF cfg.test_mode
       THEN /\ trace' = trace \o <<Ev("routine.test"), Ev("terminated")>>
            /\ pc' = "done"
       ELSE /\ trace' = trace
            /\ pc' = "baseline_check"
    /\ UNCHANGED <<fs, run, cfg, data, labeled_sample, slope, estimates,
                   compare_data, reported, fs0, pre_copy, faults, vvars, bvars, rvars, evars, xvars>>

\* BaselineCheck without the check: Baseline::Compare goes on without a
\* baseline directory
BaselineCheck_unchecked ==
    /\ pc = "baseline_check"
    /\ trace' = trace
    /\ pc' = "profile"
    /\ UNCHANGED <<fs, run, cfg, data, labeled_sample, slope, estimates,
                   compare_data, reported, fs0, pre_copy, faults, vvars, bvars, rvars, evars, xvars>>

\* lines 61-72: Baseline::Compare panics unless the baseline directory exists
BaselineCheck ==
    /\ pc = "baseline_check"
    /\ IF cfg.baseline = "Compare"
       THEN LET ex == dir_exists(fs, cfg.baseline_directory)
                chk == Io("exists", cfg.baseline_directory, "", ex)
            IN IF ex
               THEN trace' = Append(trace, chk) /\ pc' = "profile"
               ELSE /\ trace' = trace \o <<chk, Panic("baseline must exist")>>
                    /\ pc' = "panicked"
       ELSE trace' = trace /\ pc' = "profile"
    /\ UNCHANGED <<fs, run, cfg, data, labeled_sample, slope, estimates,
                   compare_data, reported, fs0, pre_copy, faults, vvars, bvars, rvars, evars, xvars>>

\* lines 75-85: profiling mode delegates to the routine and returns
Profile ==
    /\ pc = "profile"
    /\ IF cfg.profile_time
       THEN trace' = Append(trace, Ev("routine.profile")) /\ pc' = "done"
       ELSE trace' = trace /\ pc' = "measure"
    /\ UNCHANGED <<fs, run, cfg, data, labeled_sample, slope, estimates,
                   compare_data, reported, fs0, pre_copy, faults, vvars, bvars, rvars, evars, xvars>>

\* lines 87-131: the sample is loaded from the baseline named by
\* load_baseline (panic when it cannot be loaded) or taken by the routine
\* (the send to the connection is unwrapped: panic when it fails)
Measure ==
    /\ pc = "measure"
    /\ IF cfg.load_baseline # NoDir
       THEN LET ok == load_ok(fs, cfg.load_baseline, "sample.json")
                ld == Io("load", cfg.load_baseline, "sample.json", ok)
            IN /\ IF ok
                  THEN /\ data' = load(fs, cfg.load_baseline, "sample.json")
                       /\ trace' = Append(trace, ld)
                       /\ pc' = "analysis"
                  ELSE /\ data' = data
                       /\ trace' = trace \o <<ld, Panic("baseline must exist to load")>>
                       /\ pc' = "panicked"
               /\ faults' = faults
       ELSE \E sent \in Oks(faults) :
               /\ data' = run
               /\ faults' = faults + (IF sent THEN 0 ELSE 1)
               /\ IF sent
                  THEN /\ trace' = Append(trace, Ev("routine.sample"))
                       /\ pc' = "analysis"
                  ELSE /\ trace' = trace \o <<Ev("routine.sample"), Panic("conn.send")>>
                       /\ pc' = "panicked"
    /\ UNCHANGED <<fs, run, cfg, labeled_sample, slope, estimates,
                   compare_data, reported, fs0, pre_copy, vvars, bvars, rvars, evars, xvars>>

\* lines 133-149: report analysis, build avg_times, create new/ unless the
\* sample was loaded (log_if_err)
Analysis ==
    /\ pc = "analysis"
    /\ IF cfg.load_baseline = NoDir
       THEN \E ok \in Oks(faults) :
               /\ fs' = mkdirp(fs, "new", ok)
               /\ faults' = faults + (IF ok THEN 0 ELSE 1)
               /\ trace' = trace \o <<Ev("analysis"), Io("mkdirp", "new", "", ok)>>
       ELSE /\ fs' = fs /\ faults' = faults
            /\ trace' = Append(trace, Ev("analysis"))
    /\ pc' = "outliers"
    /\ UNCHANGED <<run, cfg, data, labeled_sample, slope, estimates,
                   compare_data, reported, fs0, pre_copy, vvars, bvars, rvars, evars, xvars>>

\* the outcomes of a write into directory d: no outcome to choose when the
\* directory is missing (the write fails whatever happens)
WriteOutcomes(fsys, d, n) == IF dir_exists(fsys, d) THEN Outcomes(n) ELSE {"ok"}

\* line 152 and outliers, lines 291-305: classify, then save the fences to
\* new/tukey.json (log_if_err)
Outliers ==
    /\ pc = "outliers"
    /\ labeled_sample' = data
    /\ \E o \in WriteOutcomes(fs, "new", faults) :
         /\ fs' = save(fs, "new", "tukey.json", data, o)
         /\ faults' = faults + Cost(o)
         /\ trace' = trace \o <<Ev("tukey::classify"),
                                Io("save", "new", "tukey.json", write_ok(fs, "new", o))>>
    /\ pc' = "regression"
    /\ UNCHANGED <<run, cfg, data, slope, estimates,
                   compare_data, reported, fs0, pre_copy, vvars, bvars, rvars, evars, xvars>>

\* line 153: regression(&data, config)
Regression ==
    /\ pc = "regression"
    /\ slope' = data
    /\ trace' = Append(trace, Ev("regression"))
    /\ pc' = "estimates"
    /\ UNCHANGED <<fs, run, cfg, data, labeled_sample, estimates,
                   compare_data, reported, fs0, pre_copy, faults, vvars, bvars, rvars, evars, xvars>>

\* lines 154-157: estimates(avg_times, config), the bootstrap of the
\* absolute statistics
Estimates ==
    /\ pc = "estimates"
    /\ estimates' = data
    /\ trace' = Append(trace, Ev("estimates"))
    /\ pc' = "save_sample"
    /\ UNCHANGED <<fs, run, cfg, data, labeled_sample, slope,
                   compare_data, reported, fs0, pre_copy, faults, vvars, bvars, rvars, evars, xvars>>

\* lines 159-166: save new/sample.json unless the sample was loaded
SaveSample ==
    /\ pc = "save_sample"
    /\ IF cfg.load_baseline = NoDir
       THEN \E o \in WriteOutcomes(fs, "new", faults) :
               /\ fs' = save(fs, "new", "sample.json", data, o)
               /\ faults' = faults + Cost(o)
               /\ trace' = Append(trace,
                      Io("save", "new", "sample.json", write_ok(fs, "new", o)))
               /\ pc' = "save_estimates"
       ELSE fs' = fs /\ faults' = faults /\ trace' = trace /\ pc' = "compare"
    /\ UNCHANGED <<run, cfg, data, labeled_sample, slope, estimates,
                   compare_data, reported, fs0, pre_copy, vvars, bvars, rvars, evars, xvars>>

\* lines 167-173: save new/estimates.json (same guard as the sample)
SaveEstimates ==
    /\ pc = "save_estimates"
    /\ \E o \in WriteOutcomes(fs, "new", faults) :
         /\ fs' = save(fs, "new", "estimates.json", estimates, o)
         /\ faults' = faults + Cost(o)
         /\ trace' = Append(trace,
                Io("save", "new", "estimates.json", write_ok(fs, "new", o)))
    /\ pc' = "compare"
    /\ UNCHANGED <<run, cfg, data, labeled_sample, slope, estimates,
                   compare_data, reported, fs0, pre_copy, vvars, bvars, rvars, evars, xvars>>

\* lines 176-215: when the baseline directory exists, compare::common; its
\* Err is logged and the comparison is None
Compare ==
    /\ pc = "compare"
    /\ LET bd == cfg.baseline_directory
           ex == dir_exists(fs, bd)
           ok == compare_common_ok(fs, bd)
       IN /\ compare_data' = IF ex /\ ok THEN compare_common(fs, bd, data)
                             ELSE NoComparison
          /\ trace' = trace \o <<Io("exists", bd, "", ex)>>
                            \o (IF ex THEN <<Io("compare::common", bd, "", ok)>>
                                ELSE <<>>)
                            \o (IF ex /\ ~ok THEN <<Ev("log_error")>> ELSE <<>>)
    /\ pc' = "measurement_complete"
    /\ UNCHANGED <<fs, run, cfg, data, labeled_sample, slope, estimates,
                   reported, fs0, pre_copy, faults, vvars, bvars, rvars, evars, xvars>>

\* lines 217-231: the measurement data goes to the report; the CSV report
\* writes new/raw.csv
MeasurementComplete ==
    /\ pc = "measurement_complete"
    /\ reported' = [some |-> TRUE, data |-> data, avg_times |-> labeled_sample,
                    absolute_estimates |-> estimates, slope |-> slope,
                    comparison |-> compare_data]
    /\ trace' = Append(trace, Ev("measurement_complete"))
    /\ \E o \in WriteOutcomes(fs, "new", faults) :
         /\ fs' = save(fs, "new", "raw.csv", data, o)
         /\ faults' = faults + Cost(o)
    /\ pc' = "save_benchmark"
    /\ UNCHANGED <<run, cfg, data, labeled_sample, slope, estimates,
                   compare_data, fs0, pre_copy, vvars, bvars, rvars, evars, xvars>>

\* lines 233-241: save new/benchmark.json unless the sample was loaded
SaveBenchmark ==
    /\ pc = "save_benchmark"
    /\ IF cfg.load_baseline = NoDir
       THEN \E o \in WriteOutcomes(fs, "new", faults) :
               /\ fs' = save(fs, "new", "benchmark.json", run, o)
               /\ faults' = faults + Cost(o)
               /\ trace' = Append(trace,
                      Io("save", "new", "benchmark.json", write_ok(fs, "new", o)))
       ELSE fs' = fs /\ faults' = faults /\ trace' = trace
    /\ pc' = "copy"
    /\ UNCHANGED <<run, cfg, data, labeled_sample, slope, estimates,
                   compare_data, reported, fs0, pre_copy, vvars, bvars, rvars, evars, xvars>>

CP_PC == <<"cp1", "cp2", "cp3", "cp4", "cp5">>

\* lines 243-249 and copy_new_dir_to_base, lines 348-358: with
\* Baseline::Save, return unless new/ exists, create the baseline directory
\* if needed (try_else_return)
CopyNewDirToBase ==
    /\ pc = "copy"
    /\ IF cfg.baseline = "Save"
       THEN LET bd == cfg.baseline_directory
                call == Ev("copy_new_dir_to_base")
            IN /\ pre_copy' = fs
               /\ IF ~dir_exists(fs, "new")
                  THEN /\ fs' = fs /\ faults' = faults
                       /\ trace' = Append(trace, call)
                       /\ pc' = "done"
                  ELSE IF ~dir_exists(fs, bd)
                  THEN \E ok \in Oks(faults) :
                          /\ fs' = mkdirp(fs, bd, ok)
                          /\ faults' = faults + (IF ok THEN 0 ELSE 1)
                          /\ trace' = trace \o <<call, Io("mkdirp", bd, "", ok)>>
                          /\ pc' = IF ok THEN CP_PC[1] ELSE "done"
                  ELSE /\ fs' = fs /\ faults' = faults
                       /\ trace' = Append(trace, call)
                       /\ pc' = CP_PC[1]
       ELSE /\ fs' = fs /\ faults' = faults /\ trace' = trace
            /\ pre_copy' = pre_copy
            /\ pc' = "done"
    /\ UNCHANGED <<run, cfg, data, labeled_sample, slope, estimates,
                   compare_data, reported, fs0, vvars, bvars, rvars, evars, xvars>>

\* the outcomes of copying new/f to bd/f: a fault leaves the target as it
\* was; copying a file onto itself (bd = new) succeeds and may
\* truncate it
CopyOutcomes(fsys, bd, f, n) ==
    IF fsys.file["new"][f] = 0 THEN {"ok"}
    ELSE IF bd = "new" THEN {"ok", "truncated"}
    ELSE Outcomes(n)

copy_ok(fsys, bd, f, outcome) ==
    fsys.file["new"][f] # 0 /\ outcome \in {"ok", "truncated"}

copy_file(fsys, bd, f, outcome) ==
    IF outcome = "truncated" THEN [fsys EXCEPT !.file[bd][f] = -1]
    ELSE cp(fsys, "new", bd, f, outcome)

\* copy_new_dir_to_base, lines 361-377: the five fs::cp calls, each under
\* try_else_return
CopyFile(i) ==
    /\ pc = CP_PC[i]
    /\ LET bd == cfg.baseline_directory
           f == ARTIFACTS[i]
       IN \E o \in CopyOutcomes(fs, bd, f, faults) :
            /\ fs' = copy_file(fs, bd, f, o)
            /\ faults' = faults + (IF o \in {"ok", "truncated"} THEN 0 ELSE 1)
            /\ trace' = Append(trace, Io("cp", bd, f, copy_ok(fs, bd, f, o)))
            /\ pc' = IF copy_ok(fs, bd, f, o) /\ i < Len(ARTIFACTS)
                     THEN CP_PC[i + 1] ELSE "done"
    /\ UNCHANGED <<run, cfg, data, labeled_sample, slope, estimates,
                   compare_data, reported, fs0, pre_copy, vvars, bvars, rvars, evars, xvars>>

Init ==
    /\ InitVerdictVars /\ InitAnalysisVars /\ InitBootVars /\ InitReportVars /\ InitEstimateVars
    /\ InitXVars

Next ==
    \/ StartRun
    \/ CorruptFile
    \/ ListMode
    \/ TestMode
    \/ BaselineCheck
    \/ Profile
    \/ Measure
    \/ Analysis
    \/ Outliers
    \/ Regression
    \/ Estimates
    \/ SaveSample
    \/ SaveEstimates
    \/ Compare
    \/ MeasurementComplete
    \/ SaveBenchmark
    \/ CopyNewDirToBase
    \/ \E i \in 1..Len(ARTIFACTS) : CopyFile(i)

Spec == Init /\ [][Next]_vars

(***************************************************************************)
(* Properties of the verdict procedures (SpecVerdict).                     *)
(***************************************************************************)
\* the classification rule as the specification words it, on plain numbers
BothBelow(e, t) == ~e.lb.nan /\ ~e.ub.nan /\ e.lb.v < -t /\ e.ub.v < -t
BothAbove(e, t) == ~e.lb.nan /\ ~e.ub.nan /\ e.lb.v > t /\ e.ub.v > t
RuleClass(e, t) ==
    IF BothBelow(e, t) THEN "Improved"
    ELSE IF BothAbove(e, t) THEN "Regressed"
    ELSE "NonSignificant"

\* C1: a run is failed as regressed only if the t-test rejects the null
\* hypothesis (p_value < significance_level) and every tracked statistic is
\* classified Regressed, whichever procedure fails it.
C1_FailedOnlyIfRejectedAndAllRegressed ==
    verdict.failed =>
        /\ p_value < sl
        /\ \A s \in RelStatSet : RuleClass(rel_estimates[s], noise) = "Regressed"

\* C1, the part the code keeps: compare::common fails a run exactly when the
\* t-test rejects and every statistic is Regressed; bench fails it whenever
\* every statistic is Regressed.
C1_CommonConforms ==
    /\ verdict.proc = "common" =>
          (verdict.failed <=>
              /\ p_value < sl
              /\ \A s \in RelStatSet : RuleClass(rel_estimates[s], noise) = "Regressed")
    /\ verdict.proc = "bench" =>
          (verdict.failed <=>
              \A s \in RelStatSet : RuleClass(rel_estimates[s], noise) = "Regressed")

\* C2: the three classification functions return Improved when both bounds
\* are < -noise, otherwise Regressed when both are > noise, otherwise
\* NonSignificant (WithinNoise in the legacy naming); a bound equal to the
\* threshold is not beyond it.
C2_SameThresholdRule ==
    cls.stat # "none" =>
        LET expected == RuleClass(rel_estimates[cls.stat], noise)
        IN /\ cls.compare = expected
           /\ cls.html = expected
           /\ cls.legacy = (IF expected = "NonSignificant" THEN "WithinNoise"
                            ELSE expected)

\* C2 witness: an interval whose lower bound equals the threshold and whose
\* upper bound is above it has been classified, as NonSignificant.
C2_Witness ==
    /\ cls.stat # "none"
    /\ rel_estimates[cls.stat].lb = F(noise)
    /\ Gt(rel_estimates[cls.stat].ub, F(noise))
    /\ cls.compare = "NonSignificant"
    /\ cls.legacy = "WithinNoise"

(***************************************************************************)
(* Properties of the analysis procedure (Spec).                            *)
(***************************************************************************)
TraceIdx == 1..Len(trace)
Happened(e) == \E i \in TraceIdx : trace[i].ev = e
IsWrite(e) == e.ev \in {"mkdirp", "save", "cp"}
InRun == pc # "idle"

PanicCause == trace[Len(trace)].file

C3_WitnessCompare ==
    /\ pc = "panicked"
    /\ cfg.baseline = "Compare" /\ cfg.baseline_directory = "base"
    /\ ~dir_exists(fs0, "base")

\* C4: when the baseline directory exists but its sample or estimates cannot
\* be read, the analysis aborts: the run never goes on to report its results
\* without a comparison.
C4_UnreadableBaselineAborts ==
    (/\ dir_exists(fs0, cfg.baseline_directory)
     /\ \E i \in TraceIdx : trace[i].ev = "compare::common" /\ ~trace[i].ok) =>
        /\ ~reported.some
        /\ pc # "done"

\* C4, the part the code keeps: a sample named by load_baseline that cannot
\* be loaded aborts the run before anything is analysed or reported.
C4_UnreadableLoadBaselineAborts ==
    (\E i \in TraceIdx : trace[i].ev = "load" /\ ~trace[i].ok) =>
        /\ pc = "panicked"
        /\ ~reported.some /\ ~Happened("analysis")

\* the directory after the writes of a run up to the Compare stage, had all
\* of them succeeded (lines 142-174 and 297-303)
after_writes_ok(fsys, c, d) ==
    LET made == IF c.load_baseline = NoDir THEN mkdirp(fsys, "new", TRUE) ELSE fsys
        tukey == save(made, "new", "tukey.json", d, "ok")
    IN IF c.load_baseline = NoDir
       THEN save(save(tukey, "new", "sample.json", d, "ok"),
                 "new", "estimates.json", d, "ok")
       ELSE tukey

\* the comparison a run computes from the directory it started with when
\* every write succeeds
comparison_when_writes_ok(fsys, c, d) ==
    LET w == after_writes_ok(fsys, c, d)
        bd == c.baseline_directory
    IN IF dir_exists(w, bd) /\ compare_common_ok(w, bd)
       THEN compare_common(w, bd, d) ELSE NoComparison

FailedWrite == \E i \in TraceIdx : IsWrite(trace[i]) /\ ~trace[i].ok

\* C5: a failing artifact write never aborts the run and never changes the
\* statistical outcome: the estimates and the comparison reported are those
\* of the run with the same sample and the same directory contents in which
\* every write succeeds.
C5_WriteFailuresChangeNothing ==
    /\ FailedWrite => pc # "panicked"
    /\ reported.some =>
          /\ reported.absolute_estimates = reported.data
          /\ reported.comparison = comparison_when_writes_ok(fs0, cfg, reported.data)

\* C5, the part the code keeps: the same, for a baseline directory that is
\* not the run's own new/ directory.
C5_HoldsForOtherBaselineDirectory ==
    cfg.baseline_directory # "new" =>
        /\ FailedWrite => pc # "panicked"
        /\ reported.some =>
              /\ reported.absolute_estimates = reported.data
              /\ reported.comparison = comparison_when_writes_ok(fs0, cfg, reported.data)

\* the stage an event belongs to, 0 for the events the stage order does not
\* speak of
StageRank(e) ==
    IF e.ev \in {"routine.sample", "load"} THEN 1
    ELSE IF e.ev = "tukey::classify" THEN 2
    ELSE IF e.ev = "regression" THEN 3
    ELSE IF e.ev = "estimates" THEN 4
    ELSE IF e.ev = "compare::common" THEN 5
    ELSE IF e.ev = "save" /\ e.file \in {"sample.json", "estimates.json"} THEN 6
    ELSE 0

\* C6: the stages of a run occur in the order Measure, Outliers,
\* Regression-fit, Bootstrap-estimates, Compare, Persist: the sample and the
\* estimates are saved only after the Compare stage.
C6_StagesInSpecOrder ==
    \A i \in TraceIdx : \A j \in TraceIdx :
        (i < j /\ StageRank(trace[i]) # 0 /\ StageRank(trace[j]) # 0) =>
            StageRank(trace[i]) <= StageRank(trace[j])

\* C6, the part the code keeps: Measure, Outliers, Regression-fit and
\* Bootstrap-estimates occur in this order, each once, before the saves and
\* before the Compare stage, and measurement_complete follows the Compare
\* stage.
C6_AnalysisStagesInOrder ==
    \A i \in TraceIdx : \A j \in TraceIdx :
        (i < j /\ StageRank(trace[i]) \in 1..4 /\ StageRank(trace[j]) # 0) =>
            StageRank(trace[i]) < StageRank(trace[j])

CopyCalled == Happened("copy_new_dir_to_base")

\* C7: after copy_new_dir_to_base either all five artifacts of the baseline
\* directory are those of new/, or the files of the baseline directory are
\* as they were before the call.
C7_CopyAllOrNothing ==
    (pc = "done" /\ CopyCalled) =>
        LET bd == cfg.baseline_directory
        IN \/ \A f \in Files : fs.file[bd][f] # 0 /\ fs.file[bd][f] = fs.file["new"][f]
           \/ fs.file[bd] = pre_copy.file[bd]

\* C8: a run that loads its sample from a stored baseline writes nothing: no
\* directory is created, no file is saved and none is copied.
C8_LoadBaselinePersistsNothing ==
    (InRun /\ cfg.load_baseline # NoDir) =>
        \A i \in TraceIdx : ~(IsWrite(trace[i]) /\ trace[i].ok)

\* C8, the part the code keeps: such a run saves neither sample.json nor
\* estimates.json nor benchmark.json and does not create new/.
C8_LoadBaselineGuardedWrites ==
    (InRun /\ cfg.load_baseline # NoDir) =>
        \A i \in TraceIdx :
            ~(trace[i].ev = "save" /\ trace[i].file # "tukey.json")
            /\ ~(trace[i].ev = "mkdirp" /\ trace[i].dir = "new"
                 /\ ~Happened("copy_new_dir_to_base"))

\* C9: in list mode the run only prints the benchmark id and ends: the
\* routine is not executed, no report callback is invoked and no file or
\* directory is read or written, whatever the other flags are.
C9_ListModeOnlyPrintsId ==
    (InRun /\ cfg.list_mode) =>
        /\ pc \in {"start", "done"}
        /\ trace = (IF pc = "start" THEN <<>> ELSE <<Ev("println")>>)
        /\ data = 0 /\ labeled_sample = 0 /\ slope = 0 /\ estimates = 0
        /\ ~compare_data.some /\ ~reported.some

\* C9 witness: a list-mode run with test mode, profiling, a load_baseline and
\* baseline mode Compare set has ended.
C9_Witness ==
    /\ pc = "done" /\ cfg.list_mode /\ cfg.test_mode /\ cfg.profile_time
    /\ cfg.baseline = "Compare" /\ cfg.load_baseline # NoDir
    /\ trace = <<Ev("println")>>

\* C10: in test mode (list mode off) the routine is executed exactly once,
\* between benchmark_start and terminated, and the run ends: no sample is
\* taken or loaded, nothing is classified, fitted, bootstrapped, compared,
\* reported or persisted.
C10_TestModeRunsOnce ==
    (InRun /\ cfg.test_mode /\ ~cfg.list_mode) =>
        /\ pc \in {"start", "test_mode", "done"}
        /\ pc = "start" => trace = <<>>
        /\ pc = "test_mode" => trace = <<Ev("benchmark_start")>>
        /\ pc = "done" =>
              trace = <<Ev("benchmark_start"), Ev("routine.test"), Ev("terminated")>>
        /\ data = 0 /\ labeled_sample = 0 /\ slope = 0 /\ estimates = 0
        /\ ~compare_data.some /\ ~reported.some

\* C10 witness: a test-mode run in baseline mode Compare without a baseline
\* directory has ended after running the routine once.
C10_Witness ==
    /\ pc = "done" /\ cfg.test_mode /\ ~cfg.list_mode
    /\ cfg.baseline = "Compare" /\ ~dir_exists(fs, cfg.baseline_directory)
    /\ Cardinality({i \in TraceIdx : trace[i].ev = "routine.test"}) = 1

(***************************************************************************)
(* The mixed two-sample bootstrap: stats univariate/mixed.rs bootstrap.    *)
(* The parallel iterator over 0..nresamples is a sequence of jobs, each a  *)
(* range of repetition indices; a job not yet started may be split in two, *)
(* a job is run from its first to its last index by the one worker that    *)
(* took it (map_init + fold), and finished neighbours are merged (reduce). *)
(***************************************************************************)
\* longest sample a
MaxLenA == 2
\* longest sample b
MaxLenB == 1
\* the sample values are 0..MaxSampleVal
MaxSampleVal == 1
\* largest number of repetitions
MaxResamples == 3
\* threads of the pool
NWorkers == 2

SampleVals == 0..MaxSampleVal
Workers == 1..NWorkers
NoWorker == 0
SamplesUpTo(n) == UNION {[1..k -> SampleVals] : k \in 1..n}
Range(s) == {s[i] : i \in 1..Len(s)}

RECURSIVE Sum(_)
Sum(s) == IF s = <<>> THEN 0 ELSE Head(s) + Sum(Tail(s))

\* the statistic of the caller: here the difference of the sums of the two fragments
statistic(x, y) == Sum(x) - Sum(y)

\* Resamples::next: len(source) values drawn with replacement from the source
Draws(source) == [1..Len(source) -> Range(source)]

\* lines 37-38 with the suffix taken from one element too early
fragments_overlap(resample, n_a) ==
    [a |-> SubSeq(resample, 1, n_a),
     b |-> SubSeq(resample, n_a, Len(resample))]

\* lines 37-38: &resample[..n_a] and &resample[n_a..]
fragments(resample, n_a) ==
    [a |-> SubSeq(resample, 1, n_a),
     b |-> SubSeq(resample, n_a + 1, Len(resample))]

\* a job over the repetitions lo..hi-1 that nobody has taken yet
NewTask(lo, hi) ==
    [lo |-> lo, hi |-> hi, next |-> lo, st |-> "new", owner |-> NoWorker,
     shared |-> FALSE, parts |-> 1, out |-> <<>>]

Busy(w) == \E k \in 1..Len(tasks) : tasks[k].st = "run" /\ tasks[k].owner = w

\* replace the elements from..to of a sequence by the sequence mid
Splice(seq, from, to, mid) ==
    SubSeq(seq, 1, from - 1) \o mid \o SubSeq(seq, to + 1, Len(seq))

InitBoot ==
    /\ sample_a \in SamplesUpTo(MaxLenA)
    /\ sample_b \in SamplesUpTo(MaxLenB)
    /\ nresamples \in 0..MaxResamples
    /\ pool = <<>>
    /\ tasks = NoTasks
    /\ distribution = <<>>
    /\ bpc = "init"
    /\ evaluated = <<>>
    /\ applied = NotApplied
    /\ InitVerdictVars
    /\ InitAnalysisVars
    /\ InitReportVars
    /\ InitEstimateVars
    /\ InitXVars

\* lines 24-32: pool the two samples, start the parallel iterator
BootstrapCall ==
    /\ bpc = "init"
    /\ pool' = sample_a \o sample_b
    /\ tasks' = <<NewTask(0, nresamples)>>
    /\ evaluated' = [i \in 0..(nresamples - 1) |-> NotEvaluated]
    /\ bpc' = "running"
    /\ UNCHANGED <<sample_a, sample_b, nresamples, distribution, applied, vvars, avars, rvars, evars, xvars>>

\* a split that leaves the index mid in both halves
Split_overlap(k, mid) ==
    /\ bpc = "running"
    /\ k \in 1..Len(tasks)
    /\ tasks[k].st = "new"
    /\ tasks[k].lo < mid /\ mid < tasks[k].hi
    /\ tasks' = Splice(tasks, k, k, <<NewTask(tasks[k].lo, mid + 1), NewTask(mid, tasks[k].hi)>>)
    /\ UNCHANGED <<sample_a, sample_b, nresamples, pool, distribution, bpc,
                   evaluated, applied, vvars, avars, rvars, evars, xvars>>

\* into_par_iter, lines 31-32: a job that has not started is split in two
Split(k, mid) ==
    /\ bpc = "running"
    /\ k \in 1..Len(tasks)
    /\ tasks[k].st = "new"
    /\ tasks[k].lo < mid /\ mid < tasks[k].hi
    /\ tasks' = Splice(tasks, k, k, <<NewTask(tasks[k].lo, mid), NewTask(mid, tasks[k].hi)>>)
    /\ UNCHANGED <<sample_a, sample_b, nresamples, pool, distribution, bpc,
                   evaluated, applied, vvars, avars, rvars, evars, xvars>>

\* map_init, line 34, and fold, line 44: an idle worker takes a job and creates
\* the job's Resamples buffer and its empty builder
Take(k, w) ==
    /\ bpc = "running"
    /\ k \in 1..Len(tasks)
    /\ tasks[k].st = "new"
    /\ ~Busy(w)
    /\ tasks' = [tasks EXCEPT ![k] =
                   [@ EXCEPT !.st = IF tasks[k].lo = tasks[k].hi THEN "done" ELSE "run",
                             !.owner = IF tasks[k].lo = tasks[k].hi THEN NoWorker ELSE w]]
    /\ UNCHANGED <<sample_a, sample_b, nresamples, pool, distribution, bpc,
                   evaluated, applied, vvars, avars, rvars, evars, xvars>>

\* one repetition, by worker w, of job k: a draw into the job's buffer (shared
\* records a draw by a worker that is not the one that created the buffer), the
\* statistic of the two fragments, a push; the buffer goes when the job ends
Repetition(k, w, resample, finish) ==
    LET t == tasks[k]
        f == fragments(resample, Len(sample_a))
        v == statistic(f.a, f.b)
        last == finish /\ t.next + 1 = t.hi
    IN /\ tasks' = [tasks EXCEPT ![k] =
                      [@ EXCEPT !.shared = @ \/ w # t.owner,
                                !.owner = IF last THEN NoWorker ELSE @,
                                !.out = Append(@, [rep |-> t.next, value |-> v]),
                                !.next = @ + 1,
                                !.st = IF last THEN "done" ELSE "run"]]
       /\ applied' = [rep |-> t.next, resample |-> resample, a |-> f.a, b |-> f.b,
                      value |-> v]
       /\ evaluated' = [evaluated EXCEPT ![t.next] = Evaluated(v)]

\* a repetition in which any worker draws into the buffer of job k
Step_shared(k) ==
    /\ bpc = "running"
    /\ k \in 1..Len(tasks)
    /\ tasks[k].st = "run"
    /\ tasks[k].next < tasks[k].hi
    /\ \E w \in Workers : \E resample \in Draws(pool) : Repetition(k, w, resample, TRUE)
    /\ UNCHANGED <<sample_a, sample_b, nresamples, pool, distribution, bpc, vvars, avars, rvars, evars, xvars>>

\* a repetition after which the job is never marked as finished
Step_no_done(k) ==
    /\ bpc = "running"
    /\ k \in 1..Len(tasks)
    /\ tasks[k].st = "run"
    /\ tasks[k].next < tasks[k].hi
    /\ \E resample \in Draws(pool) : Repetition(k, tasks[k].owner, resample, FALSE)
    /\ UNCHANGED <<sample_a, sample_b, nresamples, pool, distribution, bpc, vvars, avars, rvars, evars, xvars>>

\* lines 35-48: the next repetition of job k, by the worker that took the job:
\* draw into the job's buffer, apply the statistic to the two fragments, push
Step(k) ==
    /\ bpc = "running"
    /\ k \in 1..Len(tasks)
    /\ tasks[k].st = "run"
    /\ tasks[k].next < tasks[k].hi
    /\ \E resample \in Draws(pool) : Repetition(k, tasks[k].owner, resample, TRUE)
    /\ UNCHANGED <<sample_a, sample_b, nresamples, pool, distribution, bpc, vvars, avars, rvars, evars, xvars>>

\* the result of merging two finished neighbours
Merged(l, r, out) ==
    [lo |-> l.lo, hi |-> r.hi, next |-> r.hi, st |-> "done", owner |-> NoWorker,
     shared |-> l.shared \/ r.shared, parts |-> l.parts + r.parts, out |-> out]

\* a merge that forgets the right-hand partial distribution
Merge_drop(k) ==
    /\ bpc = "running"
    /\ k \in 1..(Len(tasks) - 1)
    /\ tasks[k].st = "done" /\ tasks[k + 1].st = "done"
    /\ tasks' = Splice(tasks, k, k + 1, <<Merged(tasks[k], tasks[k + 1], tasks[k].out)>>)
    /\ UNCHANGED <<sample_a, sample_b, nresamples, pool, distribution, bpc,
                   evaluated, applied, vvars, avars, rvars, evars, xvars>>

\* reduce, lines 50-56: a.extend(&mut b) on two finished neighbours
Merge(k) ==
    /\ bpc = "running"
    /\ k \in 1..(Len(tasks) - 1)
    /\ tasks[k].st = "done" /\ tasks[k + 1].st = "done"
    /\ tasks' = Splice(tasks, k, k + 1,
                       <<Merged(tasks[k], tasks[k + 1], tasks[k].out \o tasks[k + 1].out)>>)
    /\ UNCHANGED <<sample_a, sample_b, nresamples, pool, distribution, bpc,
                   evaluated, applied, vvars, avars, rvars, evars, xvars>>

\* a return that hands out the first finished partial distribution
Complete_early ==
    /\ bpc = "running"
    /\ \E k \in 1..Len(tasks) :
         /\ tasks[k].st = "done"
         /\ distribution' = tasks[k].out
    /\ bpc' = "returned"
    /\ UNCHANGED <<sample_a, sample_b, nresamples, pool, tasks, evaluated, applied,
                   vvars, avars, rvars, evars, xvars>>

\* complete, line 57: the reduction is over, the call returns
Complete ==
    /\ bpc = "running"
    /\ Len(tasks) = 1
    /\ tasks[1].st = "done"
    /\ distribution' = tasks[1].out
    /\ bpc' = "returned"
    /\ UNCHANGED <<sample_a, sample_b, nresamples, pool, tasks, evaluated, applied,
                   vvars, avars, rvars, evars, xvars>>

Splits == \E k \in 1..MaxResamples : \E mid \in 1..MaxResamples : Split(k, mid)
Takes == \E k \in 1..MaxResamples : \E w \in Workers : Take(k, w)
Steps == \E k \in 1..MaxResamples : Step(k)
Merges == \E k \in 1..MaxResamples : Merge(k)

NextBoot == BootstrapCall \/ Splits \/ Takes \/ Steps \/ Merges \/ Complete

SpecBoot == InitBoot /\ [][NextBoot]_vars

\* the workers of the pool run whenever they have something to do
FairBoot == WF_vars(Takes) /\ WF_vars(Steps) /\ WF_vars(Merges) /\ WF_vars(Complete)

SpecBootFair == InitBoot /\ [][NextBoot]_vars /\ FairBoot

(***************************************************************************)
(* Properties of the mixed bootstrap.                                      *)
(***************************************************************************)
\* job k has a buffer that was drawn into
Drawn(k) == tasks[k].st = "run" /\ tasks[k].next > tasks[k].lo

\* C11: in every repetition the statistic is applied to the prefix of length n_a
\* and the suffix of length n_b of one single resample of the pool a ++ b, the two
\* together being the whole resample, whose elements are all elements of the pool.
C11_FragmentsOfOneResample ==
    applied # NotApplied =>
        /\ Len(applied.a) = Len(sample_a)
        /\ Len(applied.b) = Len(sample_b)
        /\ applied.a \o applied.b = applied.resample
        /\ Len(applied.resample) = Len(sample_a) + Len(sample_b)
        /\ Range(applied.resample) \subseteq Range(sample_a) \cup Range(sample_b)
        /\ applied.value = statistic(applied.a, applied.b)
        /\ evaluated[applied.rep] = Evaluated(applied.value)

\* a repetition whose prefix holds a value of b only and whose suffix a value of a only
C11_Witness ==
    /\ applied # NotApplied
    /\ \E i \in 1..Len(applied.a) : applied.a[i] \notin Range(sample_a)
    /\ \E j \in 1..Len(applied.b) : applied.b[j] \notin Range(sample_b)

Returned == bpc = "returned"
Repetitions == 0..(nresamples - 1)
\* the positions of the returned distribution that hold repetition i
EntriesOf(i) == {k \in 1..Len(distribution) : distribution[k].rep = i}
\* the returned distribution was put together from several partial distributions
WasMerged == Returned /\ tasks[1].parts >= 2

\* C12: the returned distribution holds exactly nresamples entries, one for each
\* repetition index, none lost and none duplicated, for every nresamples >= 0 and
\* every way of splitting the repetitions among the workers and merging the parts.
C12_OneEntryPerRepetition ==
    Returned =>
        /\ Len(distribution) = nresamples
        /\ \A i \in Repetitions : Cardinality(EntriesOf(i)) = 1

\* a distribution of at least two entries merged from partial distributions
C12_Witness == WasMerged /\ nresamples >= 2 /\ Len(distribution) = nresamples

\* C13: no Resamples buffer is accessed by two workers: the worker that created
\* it is the only one to draw into it, no worker runs two jobs at once, and the
\* pooled source sample stays what it was when the call started.
C13_BuffersNotShared ==
    bpc # "init" =>
        /\ \A k \in 1..Len(tasks) :
              /\ ~tasks[k].shared
              /\ tasks[k].st = "run" => tasks[k].owner \in Workers
        /\ \A k, l \in 1..Len(tasks) :
              (k # l /\ tasks[k].st = "run" /\ tasks[l].st = "run")
                  => tasks[k].owner # tasks[l].owner
        /\ pool = sample_a \o sample_b

\* two workers are in the middle of their jobs at once, each with its own
\* buffer, one of the two buffers drawn into
C13_Witness ==
    \E k, l \in 1..Len(tasks) :
        /\ k # l
        /\ Drawn(k)
        /\ tasks[l].st = "run"
        /\ tasks[k].owner # tasks[l].owner

\* C14: the call returns only when every job is finished and merged: what the
\* caller gets holds every repetition, and before the return it gets nothing.
C14_ReturnsAfterJoin ==
    /\ Returned =>
          /\ \A k \in 1..Len(tasks) : tasks[k].st = "done"
          /\ \A i \in Repetitions :
                evaluated[i].some /\ EntriesOf(i) # {}
    /\ ~Returned => distribution = <<>>

\* the call has returned the merged work of the largest number of repetitions
C14_Witness == WasMerged /\ nresamples = MaxResamples /\ Len(distribution) >= 2

\* the values the statistic can return
StatValues == (0 - MaxLenB * MaxSampleVal)..(MaxLenA * MaxSampleVal)

\* C15: the multiset of the values of the returned distribution is the multiset of
\* the values the statistic returned for the repetitions, whatever the partition
\* of the repetitions among the workers and whatever the order of the merges.
C15_MultisetIndependent ==
    Returned =>
        \A v \in StatValues :
            Cardinality({k \in 1..Len(distribution) : distribution[k].value = v})
                = Cardinality({i \in Repetitions : evaluated[i] = Evaluated(v)})

\* a merged distribution that holds two different values
C15_Witness ==
    /\ WasMerged
    /\ \E k, l \in 1..Len(distribution) : distribution[k].value # distribution[l].value

\* C16: a bootstrap that was started completes: under fair scheduling of the
\* workers the call eventually returns.
C16_BootstrapCompletes == (bpc = "running") ~> Returned

\* a call over at least one repetition has returned its whole distribution
C16_Witness == Returned /\ nresamples >= 1 /\ \A i \in Repetitions : EntriesOf(i) # {}

(***************************************************************************)
(* The reporting loops of the two verdict procedures, statistic by         *)
(* statistic: compare.rs estimates (lines 120-140) followed by the test of *)
(* common (lines 44-50), and the loop of bench (criterion.rs 314-338).     *)
(***************************************************************************)
\* the point estimates of the relative changes
PointVals == {F(0), F(1)}

Line(kind, statistic_, p) == [kind |-> kind, stat |-> statistic_, p |-> p]
FailLine == [kind |-> "fail", stat |-> "", p |-> F(0)]

InitReport ==
    /\ rel_estimates \in [RelStatSet -> [lb : Floats, ub : Floats, point_estimate : PointVals]]
    /\ noise \in 0..MaxNoise
    /\ sl = 1
    /\ p_value \in 0..1
    /\ verdict = NoVerdict
    /\ cls = NoCls
    /\ InitAnalysisVars
    /\ InitBootVars
    /\ InitReportVars
    /\ InitEstimateVars
    /\ InitXVars

\* compare.rs common, line 45, and estimates up to its loop
CommonStart ==
    /\ rpc = "init"
    /\ rproc' = "common"
    /\ diff_mean' = t_test(p_value, sl)
    /\ rpc' = "loop"
    /\ UNCHANGED <<stat_i, regressed_vec, rlog, vvars, avars, bvars, evars, xvars>>

\* criterion.rs bench up to its loop, line 313: bench runs no t-test
BenchStart ==
    /\ rpc = "init"
    /\ rproc' = "bench"
    /\ rpc' = "loop"
    /\ UNCHANGED <<diff_mean, stat_i, regressed_vec, rlog, vvars, avars, bvars, evars, xvars>>

\* what one turn of the loop prints and pushes for the result of the classification
Printed(result, statistic_, p) ==
    IF result = "Improved" THEN <<Line("improved", statistic_, p)>>
    ELSE IF result = "Regressed" THEN <<Line("regressed", statistic_, p)>>
    ELSE IF result = "WithinNoise" THEN <<Line("within noise", statistic_, p)>>
    ELSE <<>>

Classified(statistic_) ==
    IF rproc = "common" THEN compare_to_threshold(rel_estimates[statistic_], noise)
    ELSE compare_to_noise(rel_estimates[statistic_], noise)

\* a loop that is left at the first statistic that has regressed
ReportStat_break ==
    /\ rpc = "loop"
    /\ stat_i < Len(REL_STATS)
    /\ LET statistic_ == REL_STATS[stat_i + 1]
           result == Classified(statistic_)
           p == rel_estimates[statistic_].point_estimate
       IN /\ rlog' = rlog \o Printed(result, statistic_, p)
          /\ regressed_vec' = Append(regressed_vec, result = "Regressed")
          /\ stat_i' = IF result = "Regressed" THEN Len(REL_STATS) ELSE stat_i + 1
    /\ UNCHANGED <<rproc, rpc, diff_mean, vvars, avars, bvars, evars, xvars>>

\* one turn of the loop: compare.rs 121-137, criterion.rs 315-334
ReportStat ==
    /\ rpc = "loop"
    /\ stat_i < Len(REL_STATS)
    /\ LET statistic_ == REL_STATS[stat_i + 1]
           result == Classified(statistic_)
           p == rel_estimates[statistic_].point_estimate
       IN /\ rlog' = rlog \o Printed(result, statistic_, p)
          /\ regressed_vec' = Append(regressed_vec, result = "Regressed")
          /\ stat_i' = stat_i + 1
    /\ UNCHANGED <<rproc, rpc, diff_mean, vvars, avars, bvars, evars, xvars>>

\* compare.rs common, lines 48-50
CommonVerdict ==
    /\ rpc = "loop"
    /\ rproc = "common"
    /\ stat_i = Len(REL_STATS)
    /\ IF diff_mean /\ All(regressed_vec)
       THEN rpc' = "failed" /\ rlog' = Append(rlog, FailLine)
       ELSE rpc' = "returned" /\ rlog' = rlog
    /\ UNCHANGED <<rproc, diff_mean, stat_i, regressed_vec, vvars, avars, bvars, evars, xvars>>

\* criterion.rs bench, lines 336-338
BenchVerdict ==
    /\ rpc = "loop"
    /\ rproc = "bench"
    /\ stat_i = Len(REL_STATS)
    /\ IF All(regressed_vec)
       THEN rpc' = "failed" /\ rlog' = Append(rlog, FailLine)
       ELSE rpc' = "returned" /\ rlog' = rlog
    /\ UNCHANGED <<rproc, diff_mean, stat_i, regressed_vec, vvars, avars, bvars, evars, xvars>>

NextReport == CommonStart \/ BenchStart \/ ReportStat \/ CommonVerdict \/ BenchVerdict

SpecReport == InitReport /\ [][NextReport]_vars

\* C17: when a run is failed as regressed, every statistic classified Regressed
\* was reported, with its point estimate, before the failure was raised: the
\* loop went through all the statistics and did not stop at the first one.
C17_AllRegressedReportedBeforeFailure ==
    rpc = "failed" =>
        /\ stat_i = Len(REL_STATS)
        /\ rlog[Len(rlog)] = FailLine
        /\ \A s \in RelStatSet :
              Classified(s) = "Regressed" =>
                  \E i \in 1..(Len(rlog) - 1) :
                      rlog[i] = Line("regressed", s, rel_estimates[s].point_estimate)

\* a failed run of common that reported two regressed statistics with two
\* different point estimates
C17_Witness ==
    /\ rpc = "failed"
    /\ rproc = "common"
    /\ \E i, j \in 1..Len(rlog) :
          /\ rlog[i].kind = "regressed" /\ rlog[j].kind = "regressed"
          /\ rlog[i].stat # rlog[j].stat
          /\ rlog[i].p # rlog[j].p

(***************************************************************************)
(* Estimate::new (estimate.rs) and the Slope estimate of regression        *)
(* (analysis/mod.rs).  The distributions of one call come from one         *)
(* bootstrap of Criterion.nresamples resamples.                            *)
(***************************************************************************)
\* largest resample count
MaxDistLen == 3
\* the values of a distribution are 0..MaxDistVal
MaxDistVal == 1
\* longest slice of points
MaxPoints == 5
\* the confidence levels are 1/ClDen .. (ClDen-1)/ClDen
ClDen == 4

\* estimate.rs, enum Statistic, in the order of its derived Ord
Statistics == <<"Mean", "Median", "MedianAbsDev", "Slope", "StdDev">>
StatisticSet == {Statistics[i] : i \in 1..Len(Statistics)}

Min(x, y) == IF x < y THEN x ELSE y

\* distributions.iter(): the statistics of the map in key order
KeysInOrder(keys) == SelectSeq(Statistics, LAMBDA st : st \in keys)

\* the distributions a bootstrap of n resamples can return for one statistic
DistributionsOf(n) == [1..n -> 0..MaxDistVal]

\* Distribution::confidence_interval: the values of the sorted distribution at the
\* ranks floor((1-cl)/2 * N) and ceil((1 - (1-cl)/2) * N); it fails when N < 2 or
\* when the two ranks are not distinct and within the distribution
confidence_interval(dist, num) ==
    LET n == Len(dist)
        sorted == SortSeq(dist, LAMBDA x, y : x < y)
        lo == ((ClDen - num) * n) \div (2 * ClDen)
        hi == ((ClDen + num) * n + 2 * ClDen - 1) \div (2 * ClDen)
        ok == n >= 2 /\ lo # hi /\ hi <= n - 1
    IN [ok |-> ok,
        lower_bound |-> IF ok THEN sorted[lo + 1] ELSE 0,
        upper_bound |-> IF ok THEN sorted[hi + 1] ELSE 0]

InitEstimate ==
    /\ nresamples_cfg = 0
    /\ cl_num \in 1..(ClDen - 1)
    /\ dist_keys \in SUBSET StatisticSet
    /\ points \in {[i \in 1..k |-> i] : k \in 0..MaxPoints}
    /\ epc = "config"
    /\ pair_i = 0
    /\ est_out = NoEstimates
    /\ slope_out = NoSlope
    /\ InitVerdictVars
    /\ InitAnalysisVars
    /\ InitBootVars
    /\ InitReportVars
    /\ InitXVars

\* criterion.rs Criterion::nresamples, lines 86-90: any count is accepted
Nresamples(n) ==
    /\ epc = "config"
    /\ nresamples_cfg' = n
    /\ epc' = "init"
    /\ UNCHANGED <<cl_num, dist_keys, points, pair_i, est_out, slope_out,
                   vvars, avars, bvars, rvars, xvars>>

\* analysis/mod.rs regression, lines 260-288: the Slope estimate from the
\* bootstrapped distribution of the slope
Regress ==
    /\ epc = "init"
    /\ \E dist \in DistributionsOf(nresamples_cfg) :
         LET ci == confidence_interval(dist, cl_num)
         IN slope_out' = IF ci.ok
                         THEN [st |-> "built", lb |-> ci.lower_bound, ub |-> ci.upper_bound]
                         ELSE [st |-> "failed", lb |-> 0, ub |-> 0]
    /\ epc' = "regressed"
    /\ UNCHANGED <<nresamples_cfg, cl_num, dist_keys, points, pair_i, est_out,
                   vvars, avars, bvars, rvars, xvars>>

\* estimate.rs Estimate::new, lines 15-16: the zip of the distributions with the points
EstimateNew ==
    /\ epc = "init"
    /\ slope_out.st = "none"
    /\ epc' = "zip"
    /\ pair_i' = 0
    /\ est_out' = NoEstimates
    /\ UNCHANGED <<nresamples_cfg, cl_num, dist_keys, points, slope_out,
                   vvars, avars, bvars, rvars, xvars>>

\* the number of pairs the zip yields
NPairs == Min(Cardinality(dist_keys), Len(points))

\* the Estimate of lines 17-21 (the standard error is left out)
Built(ci, point, n) ==
    [lower_bound |-> ci.lower_bound, upper_bound |-> ci.upper_bound,
     point_estimate |-> point, n |-> n]

\* the next pair, with the bounds of the interval exchanged
EstimateNext_swapped ==
    /\ epc = "zip"
    /\ pair_i < NPairs
    /\ \E dist \in DistributionsOf(nresamples_cfg) :
         LET ci == confidence_interval(dist, cl_num)
             key == KeysInOrder(dist_keys)[pair_i + 1]
             sw == [ok |-> ci.ok, lower_bound |-> ci.upper_bound,
                    upper_bound |-> ci.lower_bound]
         IN IF ci.ok
            THEN /\ est_out' = (key :> Built(sw, points[pair_i + 1], Len(dist))) @@ est_out
                 /\ pair_i' = pair_i + 1
                 /\ epc' = epc
            ELSE /\ epc' = "failed"
                 /\ UNCHANGED <<est_out, pair_i>>
    /\ UNCHANGED <<nresamples_cfg, cl_num, dist_keys, points, slope_out,
                   vvars, avars, bvars, rvars, xvars>>

\* the next pair, with an interval made up when the distribution gives none
EstimateNext_unchecked ==
    /\ epc = "zip"
    /\ pair_i < NPairs
    /\ \E dist \in DistributionsOf(nresamples_cfg) :
         LET ci == confidence_interval(dist, cl_num)
             key == KeysInOrder(dist_keys)[pair_i + 1]
         IN /\ est_out' = (key :> Built(ci, points[pair_i + 1], Len(dist))) @@ est_out
            /\ pair_i' = pair_i + 1
            /\ epc' = epc
    /\ UNCHANGED <<nresamples_cfg, cl_num, dist_keys, points, slope_out,
                   vvars, avars, bvars, rvars, xvars>>

\* estimate.rs Estimate::new, lines 16-21: the next (distribution, point) pair is
\* mapped to an Estimate; a failure of confidence_interval ends the call
EstimateNext ==
    /\ epc = "zip"
    /\ pair_i < NPairs
    /\ \E dist \in DistributionsOf(nresamples_cfg) :
         LET ci == confidence_interval(dist, cl_num)
             key == KeysInOrder(dist_keys)[pair_i + 1]
         IN IF ci.ok
            THEN /\ est_out' = (key :> Built(ci, points[pair_i + 1], Len(dist))) @@ est_out
                 /\ pair_i' = pair_i + 1
                 /\ epc' = epc
            ELSE /\ epc' = "failed"
                 /\ UNCHANGED <<est_out, pair_i>>
    /\ UNCHANGED <<nresamples_cfg, cl_num, dist_keys, points, slope_out,
                   vvars, avars, bvars, rvars, xvars>>

\* estimate.rs Estimate::new, line 22: collect, when the zip is exhausted
EstimateCollect ==
    /\ epc = "zip"
    /\ pair_i = NPairs
    /\ epc' = "collected"
    /\ UNCHANGED <<nresamples_cfg, cl_num, dist_keys, points, pair_i, est_out, slope_out,
                   vvars, avars, bvars, rvars, xvars>>

NextEstimate ==
    \/ \E n \in 0..MaxDistLen : Nresamples(n)
    \/ Regress
    \/ EstimateNew
    \/ EstimateNext
    \/ EstimateCollect

SpecEstimate == InitEstimate /\ [][NextEstimate]_vars

(***************************************************************************)
(* Properties of the estimates.                                            *)
(***************************************************************************)
BuiltKeys == DOMAIN est_out

C18_WitnessSlope == slope_out.st = "built" /\ slope_out.lb < slope_out.ub

\* C19: Estimate::new returns exactly one Estimate for each statistic of the given
\* distributions, for every distributions map and every points slice.
C19_OneEstimatePerStatistic ==
    epc = "collected" => BuiltKeys = dist_keys

\* with at least as many points as distributions the key sets are the same
C19_AllKeysWhenPointsSuffice ==
    (epc = "collected" /\ Len(points) >= Cardinality(dist_keys)) => BuiltKeys = dist_keys

C20_WitnessSlope == nresamples_cfg = 1 /\ slope_out.st = "failed"

(***************************************************************************)
(* The configuration builder: Criterion::default and the setters of        *)
(* criterion.rs, lines 48-96.  The f64 arguments are in hundredths, so     *)
(* 1.0 is F(100).  A failed assert! unwinds the caller: no setter is       *)
(* called after it.                                                        *)
(***************************************************************************)
MaxSampleSize == 2

ConfigArgs == {NaN} \cup {F(v) : v \in {-1, 0, 1, 99, 100, 101}}

Called(fn, arg, ok) == [fn |-> fn, arg |-> arg, ok |-> ok, before |-> criterion]

\* confidence_level with the assignment made before the assert
ConfidenceLevel_assign_first(cl) ==
    /\ last_call.ok
    /\ criterion' = [criterion EXCEPT !.confidence_level = cl]
    /\ last_call' = Called("confidence_level", cl, Gt(cl, F(0)) /\ Lt(cl, F(100)))
    /\ UNCHANGED but_cvars

\* criterion.rs Criterion::confidence_level, lines 60-65
ConfidenceLevel(cl) ==
    /\ last_call.ok
    /\ IF Gt(cl, F(0)) /\ Lt(cl, F(100))
       THEN /\ criterion' = [criterion EXCEPT !.confidence_level = cl]
            /\ last_call' = Called("confidence_level", cl, TRUE)
       ELSE /\ criterion' = criterion
            /\ last_call' = Called("confidence_level", cl, FALSE)
    /\ UNCHANGED but_cvars

\* criterion.rs Criterion::noise_tolerance, lines 78-84
NoiseTolerance(nt) ==
    /\ last_call.ok
    /\ IF ~Lt(nt, F(0)) /\ ~nt.nan
       THEN /\ criterion' = [criterion EXCEPT !.noise_tolerance = nt]
            /\ last_call' = Called("noise_tolerance", nt, TRUE)
       ELSE /\ criterion' = criterion
            /\ last_call' = Called("noise_tolerance", nt, FALSE)
    /\ UNCHANGED but_cvars

\* criterion.rs Criterion::sample_size, lines 92-96: any count is accepted
SampleSize(n) ==
    /\ last_call.ok
    /\ criterion' = [criterion EXCEPT !.sample_size = n]
    /\ last_call' = Called("sample_size", F(n), TRUE)
    /\ UNCHANGED but_cvars

NextConfig ==
    \/ \E cl \in ConfigArgs : ConfidenceLevel(cl)
    \/ \E nt \in ConfigArgs : NoiseTolerance(nt)
    \/ \E n \in 0..MaxSampleSize : SampleSize(n)

SpecConfig == Init /\ [][NextConfig]_vars

\* C21: while every call has returned normally the confidence level is strictly
\* between 0 and 1 and the noise tolerance is not negative (and neither is NaN);
\* a call that failed its assert left the stored configuration as it was
C21_ConfigurationInRange ==
    /\ last_call.ok =>
          /\ Gt(criterion.confidence_level, F(0))
          /\ Lt(criterion.confidence_level, F(100))
          /\ ~criterion.confidence_level.nan
          /\ ~Lt(criterion.noise_tolerance, F(0))
          /\ ~criterion.noise_tolerance.nan
    /\ ~last_call.ok => criterion = last_call.before

\* a setter failed its assert after both checked fields had been changed
C21_Witness ==
    /\ ~last_call.ok
    /\ criterion.confidence_level # default.confidence_level
    /\ criterion.noise_tolerance # default.noise_tolerance

(***************************************************************************)
(* The outlier classifier called by outliers (analysis/mod.rs, line 296).  *)
(* Quartiles by linear interpolation between order statistics, in quarter  *)
(* units; fences and points in eighths, so that 1.5 IQR is an integer.     *)
(***************************************************************************)
MaxTukeyLen == 5
MaxTukeyVal == 2

\* 4 * the k-th quartile (k = 1, 3) of a sorted sample
quartile4(sorted, k) ==
    LET pos == k * (Len(sorted) - 1)
        lo == pos \div 4
        r == pos % 4
    IN sorted[lo + 1] * (4 - r) + (IF r > 0 THEN sorted[lo + 2] * r ELSE 0)

\* the fences with the interquartile range taken as Q1 - Q3
fences_negated_iqr(sample) ==
    LET sorted == SortSeq(sample, LAMBDA x, y : x < y)
        q1 == 2 * quartile4(sorted, 1)
        q3 == 2 * quartile4(sorted, 3)
        iqr == q1 - q3
    IN [far_low |-> q1 - 3 * iqr, near_low |-> q1 - (3 * iqr) \div 2,
        near_high |-> q3 + (3 * iqr) \div 2, far_high |-> q3 + 3 * iqr]

\* far_low = Q1 - 3 IQR, near_low = Q1 - 1.5 IQR, near_high = Q3 + 1.5 IQR,
\* far_high = Q3 + 3 IQR, all times 8
fences(sample) ==
    LET sorted == SortSeq(sample, LAMBDA x, y : x < y)
        q1 == 2 * quartile4(sorted, 1)
        q3 == 2 * quartile4(sorted, 3)
        iqr == q3 - q1
    IN [far_low |-> q1 - 3 * iqr, near_low |-> q1 - (3 * iqr) \div 2,
        near_high |-> q3 + (3 * iqr) \div 2, far_high |-> q3 + 3 * iqr]

\* the label of the point x against the fences f
label(x, f) ==
    IF 8 * x < f.far_low THEN "LowSevere"
    ELSE IF 8 * x < f.near_low THEN "LowMild"
    ELSE IF 8 * x <= f.near_high THEN "Normal"
    ELSE IF 8 * x <= f.far_high THEN "HighMild"
    ELSE "HighSevere"

classify(sample) ==
    LET f == fences(sample)
    IN [done |-> TRUE, fences |-> f,
        labels |-> [i \in 1..Len(sample) |-> label(sample[i], f)]]

\* analysis/mod.rs common, lines 135-140: the sample that outliers receives
TakeSample(sample) ==
    /\ avg_times = <<>>
    /\ avg_times' = sample
    /\ UNCHANGED <<tukey_first, tukey_second, but_tvars>>

\* analysis/mod.rs outliers, line 296
TukeyClassify ==
    /\ avg_times # <<>>
    /\ ~tukey_first.done
    /\ tukey_first' = classify(avg_times)
    /\ UNCHANGED <<avg_times, tukey_second, but_tvars>>

\* the same call made once more on the same sample
TukeyClassifyAgain ==
    /\ tukey_first.done
    /\ ~tukey_second.done
    /\ tukey_second' = classify(avg_times)
    /\ UNCHANGED <<avg_times, tukey_first, but_tvars>>

NextTukey ==
    \/ \E n \in 1..MaxTukeyLen : \E sample \in [1..n -> 0..MaxTukeyVal] : TakeSample(sample)
    \/ TukeyClassify
    \/ TukeyClassifyAgain

SpecTukey == Init /\ [][NextTukey]_vars

\* the range of the axis that the specification gives to a label
InRange(l, x, f) ==
    CASE l = "LowSevere" -> 8 * x < f.far_low
      [] l = "LowMild" -> f.far_low <= 8 * x /\ 8 * x < f.near_low
      [] l = "Normal" -> f.near_low <= 8 * x /\ 8 * x <= f.near_high
      [] l = "HighMild" -> f.near_high < 8 * x /\ 8 * x <= f.far_high
      [] l = "HighSevere" -> f.far_high < 8 * x

Severities == {"LowSevere", "LowMild", "Normal", "HighMild", "HighSevere"}

C22_WitnessSevere ==
    /\ tukey_first.done
    /\ \E i \in 1..Len(avg_times) : tukey_first.labels[i] = "HighSevere"

(***************************************************************************)
(* Kde::sweep (kde.rs, lines 47-108).  Arithmetic is exact: an x is kept   *)
(* as its numerator over n - 1, so that dx = (b - a) / (n - 1) is the      *)
(* integer b - a.  A worker reads the sample only inside kde(x), that is   *)
(* in the step that writes a slot.                                         *)
(***************************************************************************)
MaxA == 1
MaxB == 2
MaxN == 4
MaxCpus == 3
KdeSamples == {<<0>>, <<0, 1>>}

\* kde.rs call, lines 114-122: the kernel's arguments (x - x_i) for the sample
call(c, x) == [i \in 1..Len(c.sample) |-> x - c.sample[i] * (c.n - 1)]

Uninit == [init |-> FALSE, x |-> 0, y |-> <<>>, writes |-> 0, by |-> {}]
Point(c, x, slot, w) ==
    [init |-> TRUE, x |-> x, y |-> call(c, x), writes |-> slot.writes + 1,
     by |-> slot.by \cup {w}]

\* the chunk size without the + 1
chunk_size_floor(n, ncpus) == n \div ncpus
\* kde.rs sweep, line 56
chunk_size(n, ncpus) == n \div ncpus + 1

\* every worker starting at a
first_x_a(c, start) == c.a * (c.n - 1)
\* kde.rs sweep, line 81: a + start * dx
first_x(c, start) == c.a * (c.n - 1) + start * (c.b - c.a)

\* the receive loop ending one message early
joined_early(count, ncpus) == count = ncpus - 1
\* kde.rs sweep, lines 91-93: the loop ends after ncpus receptions
joined(count, ncpus) == count = ncpus

\* kde.rs sweep, lines 47-61 and 97-99
SweepCall(a, b, n, ncpus, sample) ==
    /\ kpc = "idle"
    /\ sweep_call' = [a |-> a, b |-> b, n |-> n, ncpus |-> ncpus, sample |-> sample]
    /\ IF ~(a < b) \/ ~(n > 1)
       THEN /\ kpc' = "failed"
            /\ UNCHANGED <<workers, pdf, x_acc>>
       ELSE IF ncpus > 1
       THEN /\ kpc' = "spawning"
            /\ pdf' = [j \in 1..n |-> Uninit]
            /\ workers' = [i \in 0..(ncpus - 1) |->
                             [pc |-> "unspawned", start |-> 0, end |-> 0, j |-> 0, x |-> 0]]
            /\ UNCHANGED x_acc
       ELSE /\ kpc' = "single"
            /\ pdf' = <<>>
            /\ x_acc' = a * (n - 1)
            /\ UNCHANGED workers
    /\ UNCHANGED <<loop_i, chan, but_kvars>>

\* kde.rs sweep, lines 68-81: one turn of the spawn loop; the task's range and
\* first x depend only on what the closure captures
Spawn ==
    /\ kpc = "spawning"
    /\ LET c == sweep_call
           i == loop_i
           cs == chunk_size(c.n, c.ncpus)
           start == Min(i * cs, c.n)
           end == Min((i + 1) * cs, c.n)
       IN workers' = [workers EXCEPT ![i] =
                         [pc |-> "writing", start |-> start, end |-> end, j |-> start,
                          x |-> first_x(c, start)]]
    /\ loop_i' = IF loop_i + 1 = sweep_call.ncpus THEN 0 ELSE loop_i + 1
    /\ kpc' = IF loop_i + 1 = sweep_call.ncpus THEN "joining" ELSE "spawning"
    /\ UNCHANGED <<sweep_call, chan, pdf, x_acc, but_kvars>>

\* kde.rs sweep, lines 82-85: the task writes its next slot
WorkerWrite(i) ==
    /\ workers[i].pc = "writing"
    /\ workers[i].j < workers[i].end
    /\ pdf' = [pdf EXCEPT ![workers[i].j + 1] = Point(sweep_call, workers[i].x, @, i)]
    /\ workers' = [workers EXCEPT ![i].j = @ + 1,
                                  ![i].x = @ + (sweep_call.b - sweep_call.a)]
    /\ UNCHANGED <<sweep_call, kpc, loop_i, chan, x_acc, but_kvars>>

\* kde.rs sweep, line 87
WorkerSend(i) ==
    /\ workers[i].pc = "writing"
    /\ workers[i].j = workers[i].end
    /\ chan' = chan + 1
    /\ workers' = [workers EXCEPT ![i].pc = "sent"]
    /\ UNCHANGED <<sweep_call, kpc, loop_i, pdf, x_acc, but_kvars>>

\* kde.rs sweep, line 88: the closure ends and drops what it captured
WorkerExit(i) ==
    /\ workers[i].pc = "sent"
    /\ workers' = [workers EXCEPT ![i].pc = "exited"]
    /\ UNCHANGED <<sweep_call, kpc, loop_i, chan, pdf, x_acc, but_kvars>>

\* kde.rs sweep, lines 91-95: one reception; after the last one pdf is returned
Recv ==
    /\ kpc = "joining"
    /\ chan > 0
    /\ chan' = chan - 1
    /\ loop_i' = loop_i + 1
    /\ kpc' = IF joined(loop_i + 1, sweep_call.ncpus) THEN "returned" ELSE "joining"
    /\ UNCHANGED <<sweep_call, workers, pdf, x_acc, but_kvars>>

\* kde.rs sweep, lines 99-106: one turn of the single-threaded loop
Push ==
    /\ kpc = "single"
    /\ pdf' = Append(pdf, Point(sweep_call, x_acc, Uninit, 0))
    /\ x_acc' = x_acc + (sweep_call.b - sweep_call.a)
    /\ loop_i' = loop_i + 1
    /\ kpc' = IF loop_i + 1 = sweep_call.n THEN "returned" ELSE "single"
    /\ UNCHANGED <<sweep_call, chan, workers, but_kvars>>

Spawned == DOMAIN workers

NextKde ==
    \/ \E a \in 0..MaxA, b \in 0..MaxB, n \in 1..MaxN, ncpus \in 1..MaxCpus :
          \E sample \in KdeSamples : SweepCall(a, b, n, ncpus, sample)
    \/ Spawn
    \/ \E i \in Spawned : WorkerWrite(i)
    \/ \E i \in Spawned : WorkerSend(i)
    \/ \E i \in Spawned : WorkerExit(i)
    \/ Recv
    \/ Push

SpecKde == Init /\ [][NextKde]_vars

\* the single-threaded path as a function: k points from x on, dx apart
RECURSIVE single_threaded(_, _, _)
single_threaded(x, dx, k) ==
    IF k = 0 THEN <<>> ELSE <<x>> \o single_threaded(x + dx, dx, k - 1)

\* C23: sweep returns exactly n points, the j-th with x = a + j * dx, in
\* increasing index order, and with ys computed from these xs; what the
\* multi-threaded path returns is what the single-threaded loop computes
C23_SweepPoints ==
    kpc = "returned" =>
       LET c == sweep_call
       IN /\ Len(pdf) = c.n
          /\ \A j \in 0..(c.n - 1) :
                /\ pdf[j + 1].init
                /\ pdf[j + 1].x = c.a * (c.n - 1) + j * (c.b - c.a)
                /\ pdf[j + 1].y = call(c, pdf[j + 1].x)
          /\ [j \in 1..c.n |-> pdf[j].x] = single_threaded(c.a * (c.n - 1), c.b - c.a, c.n)

\* the multi-threaded path returned a buffer that two workers filled
C23_Witness ==
    /\ kpc = "returned"
    /\ sweep_call.ncpus > 1
    /\ sweep_call.n >= 3
    /\ \E j, k \in 1..Len(pdf) : pdf[j].by # pdf[k].by

\* the single-threaded path returned
C23_WitnessSingle == kpc = "returned" /\ sweep_call.ncpus = 1 /\ sweep_call.n >= 3

\* C24: once the multi-threaded sweep has returned the buffer, every worker has
\* sent its completion message: none is before or inside its writing loop,
\* where it writes slots and reads the sample
C24_ReturnsAfterAllWorkersSignalled ==
    (kpc = "returned" /\ sweep_call.ncpus > 1) =>
       /\ loop_i = sweep_call.ncpus
       /\ \A i \in Spawned : workers[i].pc \in {"sent", "exited"}

\* the sweep returned while a worker that had signalled had not yet exited
C24_Witness ==
    /\ kpc = "returned"
    /\ sweep_call.ncpus > 1
    /\ \E i \in Spawned : workers[i].pc = "sent" /\ workers[i].start < workers[i].end

RangeOf(i) == {j \in 0..(sweep_call.n - 1) : workers[i].start <= j /\ j < workers[i].end}

\* C25: no slot is written twice; once all workers are spawned their ranges are
\* [min(i*chunk, n), min((i+1)*chunk, n)), pairwise disjoint and covering 0..n-1;
\* in the returned buffer every slot was written once, by the worker whose
\* range holds it
C25_RangesPartitionSlots ==
    /\ \A j \in 1..Len(pdf) : pdf[j].writes <= 1
    /\ kpc \in {"joining", "returned"} /\ sweep_call.ncpus > 1 =>
          /\ \A i \in Spawned :
                LET cs == sweep_call.n \div sweep_call.ncpus + 1
                IN /\ workers[i].start = Min(i * cs, sweep_call.n)
                   /\ workers[i].end = Min((i + 1) * cs, sweep_call.n)
          /\ \A i, k \in Spawned : i # k => RangeOf(i) \cap RangeOf(k) = {}
          /\ UNION {RangeOf(i) : i \in Spawned} = 0..(sweep_call.n - 1)
    /\ kpc = "returned" /\ sweep_call.ncpus > 1 =>
          \A j \in 1..Len(pdf) :
             /\ pdf[j].writes = 1
             /\ \E i \in Spawned : pdf[j].by = {i} /\ (j - 1) \in RangeOf(i)

\* a sweep returned in which the last worker's range was empty and the one
\* before it was cut short by the end of the buffer
C25_Witness ==
    /\ kpc = "returned"
    /\ sweep_call.ncpus = 3
    /\ workers[2].start = workers[2].end
    /\ workers[1].end - workers[1].start < workers[0].end - workers[0].start

(***************************************************************************)
(* The directories of bench (criterion.rs, lines 256-338 and 380-395)      *)
(* over successive runs of one benchmark id.  A run ends by returning, by  *)
(* fail!("regression"), by a failure inside take_sample (the target is     *)
(* user code or an external program), or by a failed load of the baseline. *)
(***************************************************************************)
MaxBenchRuns == 6

\* criterion.rs rename_new_dir_to_base, lines 380-387
rename_new_dir_to_base(d) ==
    LET removed == IF d.base.exists THEN [d EXCEPT !.base = Absent] ELSE d
    IN IF removed.new.exists THEN [base |-> removed.new, new |-> Absent] ELSE removed

\* criterion.rs build_directory_skeleton, lines 389-395: mkdirp under new/
build_directory_skeleton(d) == [d EXCEPT !.new.exists = TRUE]

BenchEnded == bench_pc \in {"idle", "returned", "regressed", "aborted", "load_failed"}

\* criterion.rs bench, lines 256-260
BenchPrepare ==
    /\ BenchEnded
    /\ bench_run < MaxBenchRuns
    /\ bench_run' = bench_run + 1
    /\ bench_start' = [base |-> crit_dir.base, new |-> crit_dir.new, prev |-> bench_pc]
    /\ crit_dir' = build_directory_skeleton(rename_new_dir_to_base(crit_dir))
    /\ bench_cmp' = NotCompared
    /\ bench_pc' = "measuring"
    /\ UNCHANGED but_dvars

\* criterion.rs bench, line 265, take_sample, lines 361-378: the target fails
\* while it is warmed up or measured
BenchTakeSampleFails ==
    /\ bench_pc = "measuring"
    /\ bench_pc' = "aborted"
    /\ UNCHANGED <<crit_dir, bench_run, bench_cmp, bench_start, but_dvars>>

\* criterion.rs bench, lines 265-285: the sample is taken and saved under new/
BenchSaveSample ==
    /\ bench_pc = "measuring"
    /\ crit_dir' = [crit_dir EXCEPT !.new.sample = bench_run]
    /\ bench_pc' = "saved"
    /\ UNCHANGED <<bench_run, bench_cmp, bench_start, but_dvars>>

\* criterion.rs bench, lines 287-289
BenchNoBase ==
    /\ bench_pc = "saved"
    /\ ~crit_dir.base.exists
    /\ bench_pc' = "returned"
    /\ UNCHANGED <<crit_dir, bench_run, bench_cmp, bench_start, but_dvars>>

\* criterion.rs bench, lines 291-338: the baseline sample is loaded and compared;
\* the run then returns or fails as regressed
BenchCompare(regressed) ==
    /\ bench_pc = "saved"
    /\ crit_dir.base.exists
    /\ IF crit_dir.base.sample = 0
       THEN /\ bench_pc' = "load_failed"
            /\ UNCHANGED bench_cmp
       ELSE /\ bench_cmp' = [done |-> TRUE, against |-> crit_dir.base.sample]
            /\ bench_pc' = IF regressed THEN "regressed" ELSE "returned"
    /\ UNCHANGED <<crit_dir, bench_run, bench_start, but_dvars>>

NextBenchDir ==
    \/ BenchPrepare
    \/ BenchTakeSampleFails
    \/ BenchSaveSample
    \/ BenchNoBase
    \/ \E regressed \in BOOLEAN : BenchCompare(regressed)

SpecBenchDir == Init /\ [][NextBenchDir]_vars

\* the run has passed its measurement and has ended
BenchFinished == bench_pc \in {"returned", "regressed", "load_failed"}

\* C26: a run that gets past its measurement makes the comparison exactly when
\* the run found a new/ directory; the comparison is against the sample that
\* the preceding run saved; and from the start of a run base/ is what new/ was,
\* never the older baseline
C26_ComparesWithPredecessor ==
    /\ BenchFinished => (bench_cmp.done <=> bench_start.new.exists)
    /\ bench_cmp.done => bench_cmp.against = bench_run - 1
    /\ bench_run >= 1 => crit_dir.base = bench_start.new

\* the same, for runs whose predecessor saved its sample
C26_HoldsWhenPredecessorSaved ==
    (bench_start.new.exists => bench_start.new.sample # 0) =>
       /\ BenchFinished => (bench_cmp.done <=> bench_start.new.exists)
       /\ bench_cmp.done => bench_cmp.against = bench_run - 1
       /\ bench_run >= 1 => crit_dir.base = bench_start.new

\* a run after one that had failed as regressed compared with that run's sample
C26_WitnessAfterRegressed ==
    /\ bench_cmp.done
    /\ bench_start.prev = "regressed"
    /\ bench_start.base.sample = 1
    /\ bench_cmp.against = 2

(***************************************************************************)
(* Successive runs of common with Baseline::Save (Spec).                   *)
(***************************************************************************)
\* the current run saves into a baseline directory that existed when it started
SaveOverBaseline ==
    run >= 1 /\ cfg.baseline = "Save" /\ dir_exists(fs0, cfg.baseline_directory)

\* the current run and the one before it both measured, with Baseline::Save
\* into the same directory, the earlier one returned, and no I/O operation
\* has failed
SuccessiveSaveRuns ==
    /\ run >= 2 /\ faults = 0
    /\ cfg.baseline = "Save" /\ Measures(cfg)
    /\ pred.save_dir = cfg.baseline_directory

\* the comparison used the baseline's files as the run found them
ComparedWithBaselineAsFound ==
    (SaveOverBaseline /\ compare_data.some) =>
       /\ compare_data.base_sample = load(fs0, cfg.baseline_directory, "sample.json")
       /\ compare_data.base_estimates = load(fs0, cfg.baseline_directory, "estimates.json")

\* the baseline's files are untouched until the measurement has been reported
BaselineKeptUntilReported ==
    (SaveOverBaseline /\ ~reported.some /\ pc \notin {"idle", "done", "panicked"}) =>
       fs.file[cfg.baseline_directory] = fs0.file[cfg.baseline_directory]

\* the later of two successive Save runs is compared with the earlier's sample
ComparedWithPredecessor ==
    (SuccessiveSaveRuns /\ reported.some) =>
       compare_data.some /\ compare_data.base_sample = pred.data

\* C27: a Save run over an existing baseline is compared with the baseline's
\* sample and estimates as they were when the run started; the files of the
\* baseline directory are as the run found them until measurement_complete has
\* been reported; and of two successive Save runs the later is compared with
\* the sample of the earlier
C27_SaveRunComparedWithPredecessor ==
    /\ ComparedWithBaselineAsFound
    /\ BaselineKeptUntilReported
    /\ ComparedWithPredecessor

\* no file was unreadable when the current run started
Undamaged == \A d \in Dirs : \A f \in Files : fs0.file[d][f] # -1

\* the same, for a baseline directory other than the run's new/ directory, the
\* last part when the run found no file damaged by an earlier run
C27_HoldsForOtherBaselineDirectory ==
    cfg.baseline_directory # "new" =>
       /\ ComparedWithBaselineAsFound
       /\ BaselineKeptUntilReported
       /\ Undamaged => ComparedWithPredecessor

\* the second of two Save runs was compared with the first and has then
\* overwritten the baseline's sample with its own
C27_WitnessOtherDirectory ==
    /\ SuccessiveSaveRuns /\ SaveOverBaseline
    /\ cfg.baseline_directory = "base"
    /\ pc = "done"
    /\ compare_data.some /\ compare_data.base_sample = 1
    /\ fs.file["base"]["sample.json"] = 2

(***************************************************************************)
(* The wording of the report (SpecVerdict) and the algebra of the          *)
(* classification (SpecNegated).                                           *)
(***************************************************************************)
\* C28: the explanation says regressed only when p_value is below the
\* significance threshold and both bounds of the relative Mean are above the
\* noise threshold; it says no change whenever p_value is not below the
\* threshold; and a comparison whose t-test rejects with every tracked
\* statistic Regressed, among them every run that common fails, is explained
\* as regressed
C28_ExplanationFollowsVerdict ==
    explanation # "none" =>
       /\ explanation = "Performance has regressed." =>
             p_value < sl /\ BothAbove(rel_estimates["Mean"], noise)
       /\ p_value >= sl => explanation = "No change in performance detected."
       /\ (p_value < sl /\ \A s \in RelStatSet : BothAbove(rel_estimates[s], noise)) =>
             explanation = "Performance has regressed."
       /\ (verdict.proc = "common" /\ verdict.failed) =>
             explanation = "Performance has regressed."

\* a run that common failed has been explained
C28_Witness ==
    /\ verdict.proc = "common" /\ verdict.failed
    /\ explanation = "Performance has regressed."

\* the t-test did not reject although the Mean is above the noise threshold
C28_WitnessNoChange ==
    /\ explanation = "No change in performance detected."
    /\ BothAbove(rel_estimates["Mean"], noise)

Swapped(c) ==
    IF c = "Improved" THEN "Regressed" ELSE IF c = "Regressed" THEN "Improved" ELSE c

\* C29: for an interval with lower bound <= upper bound (the noise threshold is
\* never negative) the conditions of Improved and Regressed do not both hold,
\* an interval that contains 0 is NonSignificant, and the negated interval
\* gets the class with Improved and Regressed swapped
C29_ClassificationAntisymmetric ==
    neg_cls.stat # "none" =>
       LET e == rel_estimates[neg_cls.stat]
       IN (~e.lb.nan /\ ~e.ub.nan /\ e.lb.v <= e.ub.v /\ noise >= 0) =>
             /\ ~(BothBelow(e, noise) /\ BothAbove(e, noise))
             /\ (e.lb.v <= 0 /\ 0 <= e.ub.v) => neg_cls.of = "NonSignificant"
             /\ neg_cls.negated = Swapped(neg_cls.of)
             /\ neg_cls.of = RuleClass(e, noise)

\* an interval above the threshold was classified Regressed, its negation Improved
C29_Witness ==
    /\ neg_cls.of = "Regressed" /\ neg_cls.negated = "Improved"
    /\ rel_estimates[neg_cls.stat].lb.v < rel_estimates[neg_cls.stat].ub.v

(***************************************************************************)
(* The relative estimates: compare.rs estimates, lines 84-107, with         *)
(* Estimate::new (estimate.rs, lines 15-23).  A relative change is kept as  *)
(* a fraction [num, den]; one resample stands for the bootstrap.           *)
(***************************************************************************)
MaxRelLen == 3
MaxRelVal == 1

\* samples in nondecreasing order (both statistics are symmetric)
RelSamples ==
    UNION {{x \in [1..n -> 0..MaxRelVal] : \A i \in 1..(n - 1) : x[i] <= x[i + 1]} :
              n \in 1..MaxRelLen}

\* twice the median of a sorted sample
median2(x) ==
    LET n == Len(x)
    IN IF n % 2 = 1 THEN 2 * x[(n + 1) \div 2] ELSE x[n \div 2] + x[n \div 2 + 1]

\* Statistic::rel_fn: (stat(x) - stat(y)) / stat(y)
rel_fn(st, x, y) ==
    IF st = "Mean"
    THEN [num |-> Sum(x) * Len(y) - Sum(y) * Len(x), den |-> Sum(y) * Len(x)]
    ELSE [num |-> median2(x) - median2(y), den |-> median2(y)]

\* estimate.rs Estimate::new, lines 15-23: the distributions in key order
\* zipped with the points (the interval and the standard error are left out)
estimate_new(dists, pts) ==
    LET keys == KeysInOrder(DOMAIN dists)
        n == Min(Len(keys), Len(pts))
    IN [st \in {keys[j] : j \in 1..n} |->
          LET j == CHOOSE i \in 1..n : keys[i] = st
          IN [distribution |-> dists[st], point_estimate |-> pts[j]]]

\* compare.rs estimates, lines 84-94: the two samples
RelStart(times, base_times) ==
    /\ rel.pc = "none"
    /\ rel' = [rel EXCEPT !.pc = "start", !.times = times, !.base_times = base_times]
    /\ UNCHANGED <<vvars, avars, bvars, rvars, evars, xvars_but_rel>>

\* compare.rs estimates, lines 96-100: bootstrap2_many returns one
\* distribution per function, in the order of the functions
RelBootstrap(x, y) ==
    /\ rel.pc = "start"
    /\ Len(x) = Len(rel.times) /\ Len(y) = Len(rel.base_times)
    /\ \A i \in 1..Len(x) : \E j \in 1..Len(rel.times) : x[i] = rel.times[j]
    /\ \A i \in 1..Len(y) : \E j \in 1..Len(rel.base_times) : y[i] = rel.base_times[j]
    /\ rel' = [rel EXCEPT !.pc = "bootstrapped", !.resample = <<x, y>>,
                          !.distributions =
                              [i \in 1..Len(REL_STATS) |-> <<rel_fn(REL_STATS[i], x, y)>>]]
    /\ UNCHANGED <<vvars, avars, bvars, rvars, evars, xvars_but_rel>>

\* compare.rs estimates, lines 102-107: the points, the map of the
\* distributions, Estimate::new
RelEstimates ==
    /\ rel.pc = "bootstrapped"
    /\ LET pts == [i \in 1..Len(REL_STATS) |->
                         rel_fn(REL_STATS[i], rel.times, rel.base_times)]
           n == Min(Len(REL_STATS), Len(rel.distributions))
           dists == [st \in {REL_STATS[i] : i \in 1..n} |->
                               LET i == CHOOSE k \in 1..n : REL_STATS[k] = st
                               IN rel.distributions[i]]
       IN rel' = [rel EXCEPT !.pc = "done", !.points = pts,
                             !.estimates = estimate_new(dists, pts)]
    /\ UNCHANGED <<vvars, avars, bvars, rvars, evars, xvars_but_rel>>

NextRel ==
    \/ \E times, base_times \in RelSamples : RelStart(times, base_times)
    \/ \E x, y \in RelSamples : RelBootstrap(x, y)
    \/ RelEstimates

SpecRel == Init /\ [][NextRel]_vars

\* C30: the Estimates hold an entry for Mean and one for Median; each entry's
\* point is the relative change of its own statistic between the two samples
\* and its distribution is made of the relative changes of its own statistic
\* between the resamples
C30_EstimatePairsOwnStatistic ==
    rel.pc = "done" =>
       /\ DOMAIN rel.estimates = {"Mean", "Median"}
       /\ \A st \in DOMAIN rel.estimates :
             /\ rel.estimates[st].point_estimate = rel_fn(st, rel.times, rel.base_times)
             /\ rel.estimates[st].distribution =
                   <<rel_fn(st, rel.resample[1], rel.resample[2])>>

\* Estimates were built from samples whose relative mean change and relative
\* median change differ, in the samples and in the resample
C30_Witness ==
    /\ rel.pc = "done"
    /\ rel.estimates["Mean"].point_estimate # rel.estimates["Median"].point_estimate
    /\ rel.estimates["Mean"].distribution # rel.estimates["Median"].distribution

====
